---- MODULE Spec2Model ----
(***************************************************************************)
(* A model of the discord-iot-bot: the per-device refresh debounce of the  *)
(* bot shell, the control panel's dispatch_update and start-up hydration,  *)
(* the push-bus handler of the cloud client, the room-close workflow, and  *)
(* the pure helpers (status mapping, pagination, device resolution).       *)
(*                                                                         *)
(* asyncio is modelled at the granularity of its suspension points: every  *)
(* action is the code that runs between two awaits of one coroutine.       *)
(***************************************************************************)
EXTENDS Integers, Sequences, FiniteSets, TLC

\* ------------------------------------------------------------------ bounds
\* How many refresh tasks update_device may create in one run.
MaxTasks == 3

\* How many times the presence service may report "disconnected" in one run.
MaxCycles == 3

\* How many inventory pages the cloud platform may hold.
MaxPages == 3

\* How many items a status list may have.
MaxStatusLen == 2

\* How many connection attempts the presence client may make in one run.
MaxAttempts == 3

\* How many component interactions may happen in one run.
MaxInteractions == 2

\* How many control panels may be sent in one run.
MaxSends == 2

\* How many times a button of one prompt may be pressed.
MaxPresses == 2

\* How many times the cache may be filled again after startup.
MaxFills == 1

\* ------------------------------------------------------------- value sets
\* Device ids held by the cloud client's cache, and one id that is not cached.
CachedIds == {"d1", "d2"}
UnknownId == "dx"
DeviceIds == CachedIds \cup {UnknownId}

\* The message each persisted binding points at (one per device id).
MessageOf == [d \in DeviceIds |-> CASE d = "d1" -> "m1" [] d = "d2" -> "m2" [] OTHER -> "mx"]
MessageIds == {MessageOf[d] : d \in DeviceIds}

\* Python's None, for the places that hold an id or nothing.
None == "None"

\* The cached fields a panel shows, or nothing shown yet.
NoEmbed == [value |-> FALSE, online |-> FALSE, current |-> 0, power |-> 0, countdown |-> 0, rev |-> -1]

\* No view data under a device id (dict.get returning None).
NoData == [message |-> None, author |-> None, device |-> None]

\* The frame of a dispatch_update call that is not running.
NoFrame == [pc |-> "idle", dev |-> None, msg |-> None, embed |-> NoEmbed]

\* Callers of dispatch_update: 0 is ainit, t > 0 is refresh task t.
AinitCaller == 0
Callers == 0..MaxTasks

VARIABLES
    sockets_infos,  \* TuyaClient._sockets_infos: device id -> Socket (rev counts its mutations)
    recent_task,    \* IoTBot.recent_task: device id -> task number, 0 when no entry
    tasks,          \* the tasks update_device created, in creation order
    socket_data,    \* DeviceControl._socket_data: device id -> ViewDataDevice
    db,             \* table device_info_view: a set of rows
    messages,       \* the panel messages that exist on the chat platform
    content,        \* what each message shows: the last embed edited into it
    frames,         \* the running dispatch_update call of each caller
    ainit           \* DeviceControl.ainit: its position, the rows it fetched, its history

VARIABLES
    room_task,      \* CloseRoom.task: the workflow's task number, 0 when None
    room_tasks,     \* the tasks CloseRoom.do created, in creation order
    room_socket,    \* the designated socket as the cloud platform holds it
    room_commands   \* the commands the workflow posted, in order

VARIABLES
    set_call,       \* one call of TuyaClient.set_device_value
    fetch_call,     \* one call of TuyaClient.fetch_devices_info
    status_call,    \* a Socket and a status list applied to it
    convert_call    \* one conversion of an argument by DeviceConverter

VARIABLES
    bus_call,       \* one push-bus frame handed to TuyaClient.on_message
    server,         \* Webserver: the presence client's connection loop
    interaction,    \* one component interaction on a view
    sends,          \* the control-panel sends (DeviceControl.send) in progress or done
    startup         \* IoTBot._startup: what it acquired and what it released

panelVars == <<sockets_infos, recent_task, tasks, socket_data, db, messages, content,
               frames, ainit>>
roomVars == <<room_task, room_tasks, room_socket, room_commands>>
callVars == <<set_call, fetch_call, status_call, convert_call>>
VARIABLES
    prompt_view,    \* one ViewPrompt: its message, its value, its presses and its ask call
    threads,        \* the threads that touch the device cache and where each one stands
    objects         \* Socket objects by identity: the cache's and the ones view data holds

lateVars == <<prompt_view, threads, objects>>
moreVars == <<bus_call, server, interaction, sends, startup, lateVars>>

vars == <<panelVars, roomVars, callVars, moreVars>>

\* What the panel's actions leave alone, and the workflow's, and the single calls'.
notPanel == <<roomVars, callVars, moreVars>>
notRoom == <<panelVars, callVars, moreVars>>
notShell == <<panelVars, roomVars, callVars>>

\* ------------------------------------------------------------ tuya/models
\* An update_from_status whose countdown_1 adds to the countdown.
RECURSIVE update_from_status_adding(_, _)
update_from_status_adding(socket, status) ==
    IF status = <<>> THEN socket
    ELSE LET item == Head(status)
             next == CASE item.code = "switch_1"    -> [socket EXCEPT !.value = item.value]
                       [] item.code = "countdown_1" -> [socket EXCEPT !.countdown = @ + item.value]
                       [] item.code = "cur_current" -> [socket EXCEPT !.current = item.value]
                       [] item.code = "cur_voltage" -> [socket EXCEPT !.voltage = item.value]
                       [] item.code = "cur_power"   -> [socket EXCEPT !.power = item.value]
                       [] OTHER -> socket
         IN update_from_status_adding(next, Tail(status))

\* Socket.update_from_status: each status item whose code is mapped sets its field.
RECURSIVE update_from_status(_, _)
update_from_status(socket, status) ==
    IF status = <<>> THEN socket
    ELSE LET item == Head(status)
             next == CASE item.code = "switch_1"    -> [socket EXCEPT !.value = item.value]
                       [] item.code = "countdown_1" -> [socket EXCEPT !.countdown = item.value]
                       [] item.code = "cur_current" -> [socket EXCEPT !.current = item.value]
                       [] item.code = "cur_voltage" -> [socket EXCEPT !.voltage = item.value]
                       [] item.code = "cur_power"   -> [socket EXCEPT !.power = item.value]
                       [] OTHER -> socket
         IN update_from_status(next, Tail(status))

\* Socket.__init__: the live fields start zeroed.
NewSocket(id, name) ==
    [id |-> id, name |-> name, online |-> TRUE, value |-> FALSE, voltage |-> 0,
     current |-> 0, power |-> 0, countdown |-> 0, rev |-> 0]

\* ------------------------------------------------------------- core/views
\* DeviceControl.format_device: the embed is a function of the Socket's fields.
format_device(device) ==
    [value |-> device.value, online |-> device.online, current |-> device.current,
     power |-> device.power, countdown |-> device.countdown, rev |-> device.rev]

\* dict.get finding nothing under the id.
NoSocket == NewSocket(None, None)

\* TuyaClient.get_socket
get_socket(id) == IF id \in DOMAIN sockets_infos THEN sockets_infos[id] ELSE NoSocket

\* dispatch_update up to its first await: nothing bound returns at once, otherwise
\* the embed is rendered from data.device and the edit of data.message is awaited.
dispatch_update(device_id) ==
    LET data == socket_data[device_id] IN
    IF data = NoData THEN NoFrame
    ELSE [pc |-> "edit", dev |-> device_id, msg |-> data.message,
          embed |-> format_device(sockets_infos[data.device])]

\* What the caller of a dispatch_update that returned does next.
Returned(c) ==
    IF c = AinitCaller
    THEN /\ ainit' = [ainit EXCEPT !.pc = "loop"]
         /\ UNCHANGED tasks
    ELSE /\ tasks' = [tasks EXCEPT ![c].st = "done"]
         /\ UNCHANGED ainit

Cancelling(c) == c # AinitCaller /\ tasks[c].cancelReq

\* message.edit succeeded: the message shows the embed and dispatch_update returns.
DispatchEdited(c) ==
    /\ frames[c].pc = "edit"
    /\ ~Cancelling(c)
    /\ frames[c].msg \in messages
    /\ content' = [content EXCEPT ![frames[c].msg] = frames[c].embed]
    /\ frames' = [frames EXCEPT ![c] = NoFrame]
    /\ Returned(c)
    /\ UNCHANGED <<sockets_infos, recent_task, socket_data, db, messages>>
    /\ UNCHANGED notPanel

\* A NotFound handler that leaves the in-memory entry where it is.
DispatchNotFoundKeepsEntry(c) ==
    /\ frames[c].pc = "edit"
    /\ ~Cancelling(c)
    /\ frames[c].msg \notin messages
    /\ frames' = [frames EXCEPT ![c].pc = "delete"]
    /\ UNCHANGED <<sockets_infos, recent_task, tasks, socket_data, db, messages, content,
                   ainit>>
    /\ UNCHANGED notPanel

\* message.edit raised NotFound: the entry is popped and the DELETE is awaited, with the
\* id of the message the view data holds by now.
DispatchNotFound(c) ==
    /\ frames[c].pc = "edit"
    /\ ~Cancelling(c)
    /\ frames[c].msg \notin messages
    /\ socket_data' = [socket_data EXCEPT ![frames[c].dev] = NoData]
    /\ frames' = [frames EXCEPT ![c].pc = "delete",
                                ![c].msg = IF socket_data[frames[c].dev] # NoData
                                           THEN socket_data[frames[c].dev].message ELSE @]
    /\ UNCHANGED <<sockets_infos, recent_task, tasks, db, messages, content, ainit>>
    /\ UNCHANGED notPanel

\* DELETE FROM device_info_view WHERE message_id=$1 ran: dispatch_update returns.
DispatchDeleted(c) ==
    /\ frames[c].pc = "delete"
    /\ ~Cancelling(c)
    /\ db' = {row \in db : row.message_id # frames[c].msg}
    /\ frames' = [frames EXCEPT ![c] = NoFrame]
    /\ Returned(c)
    /\ UNCHANGED <<sockets_infos, recent_task, socket_data, messages, content>>
    /\ UNCHANGED notPanel

\* ------------------------------------------------------------ core/client
\* A cancel that only reaches a task still in its sleep.
TaskCancelSleepingOnly(ts, t) ==
    IF ts[t].st # "sleeping" THEN ts
    ELSE [ts EXCEPT ![t].cancelReq = TRUE]

\* Task.cancel(): a task that is not done is asked to stop.
TaskCancel(ts, t) ==
    IF ts[t].st \in {"done", "cancelled"} THEN ts
    ELSE [ts EXCEPT ![t].cancelReq = TRUE]

\* What the superseded task was doing when the next trigger came (history).
Superseded(ts, t) ==
    IF ts[t].st \in {"done", "cancelled"} \/ ts[t].sup # "no" THEN ts
    ELSE [ts EXCEPT ![t].sup = IF ts[t].st = "sleeping" THEN "sleeping" ELSE "running"]

\* An update_device that forgets to cancel.
CancelRecentSkipped(ts, device_id) == ts

\* The cancel of the task recent_task holds for the device, if it holds one.
CancelRecent(ts, device_id) ==
    IF recent_task[device_id] # 0 THEN TaskCancel(ts, recent_task[device_id]) ELSE ts

NewTask(device_id) ==
    [dev |-> device_id, st |-> "sleeping", cancelReq |-> FALSE, sup |-> "no",
     born |-> sockets_infos'[device_id].rev, disp |-> 0, shown |-> -1]

\* IoTBot.update_device: cancel the device's recent task, create and keep a new one.
update_device(device_id) ==
    /\ Len(tasks) < MaxTasks
    /\ LET old == IF recent_task[device_id] # 0
                  THEN Superseded(tasks, recent_task[device_id]) ELSE tasks
       IN tasks' = Append(CancelRecent(old, device_id), NewTask(device_id))
    /\ recent_task' = [recent_task EXCEPT ![device_id] = Len(tasks) + 1]

\* dispatching(id) after asyncio.sleep(1): the task calls dispatch_update.
TaskWake(t) ==
    /\ t \in 1..Len(tasks)
    /\ tasks[t].st = "sleeping"
    /\ ~tasks[t].cancelReq
    /\ LET frame == dispatch_update(tasks[t].dev) IN
       /\ frames' = [frames EXCEPT ![t] = frame]
       /\ tasks' = [tasks EXCEPT ![t].st = IF frame.pc = "idle" THEN "done" ELSE "dispatch",
                                 ![t].disp = @ + 1,
                                 ![t].shown = frame.embed.rev]
    /\ UNCHANGED <<sockets_infos, recent_task, socket_data, db, messages, content, ainit>>
    /\ UNCHANGED notPanel

\* The loop delivers CancelledError to a task asked to stop. A request already sent
\* (the edit, the DELETE) may or may not have reached the other side.
TaskCancelled(t) ==
    /\ t \in 1..Len(tasks)
    /\ tasks[t].st \in {"sleeping", "dispatch"}
    /\ tasks[t].cancelReq
    /\ tasks' = [tasks EXCEPT ![t].st = "cancelled"]
    /\ frames' = [frames EXCEPT ![t] = NoFrame]
    /\ \/ UNCHANGED <<content, db>>
       \/ /\ frames[t].pc = "edit"
          /\ frames[t].msg \in messages
          /\ content' = [content EXCEPT ![frames[t].msg] = frames[t].embed]
          /\ UNCHANGED db
       \/ /\ frames[t].pc = "delete"
          /\ db' = {row \in db : row.message_id # frames[t].msg}
          /\ UNCHANGED content
    /\ UNCHANGED <<sockets_infos, recent_task, socket_data, messages, ainit>>
    /\ UNCHANGED notPanel

\* recent_task is a WeakValueDictionary: the entry of a task nothing refers to any
\* more (it is done or cancelled) disappears at some point.
Collected(device_id) ==
    /\ recent_task[device_id] # 0
    /\ tasks[recent_task[device_id]].st \in {"done", "cancelled"}
    /\ recent_task' = [recent_task EXCEPT ![device_id] = 0]
    /\ UNCHANGED <<sockets_infos, tasks, socket_data, db, messages, content, frames, ainit>>
    /\ UNCHANGED notPanel

\* ------------------------------------------------------------ tuya/client
\* The status lists the push bus reports in this model.
StatusFrames ==
    << <<[code |-> "switch_1", value |-> TRUE]>>,
       <<[code |-> "switch_1", value |-> FALSE]>>,
       <<[code |-> "doorcontact_state", value |-> 1]>> >>

\* on_message for a protocol-4 frame: _process_socket, then the socket event.
ReportStatus(dev_id, status) ==
    /\ IF dev_id \notin DOMAIN sockets_infos
       THEN UNCHANGED <<sockets_infos, recent_task, tasks>>
       ELSE /\ sockets_infos' = [sockets_infos EXCEPT ![dev_id] =
                    [update_from_status(@, status) EXCEPT !.rev = @ + 1]]
            /\ update_device(dev_id)
    /\ UNCHANGED <<socket_data, db, messages, content, frames, ainit>>
    /\ UNCHANGED notPanel

\* ------------------------------------------------- tuya/client: on_message
\* The push-bus frames of this model: protocol 4 carries a status list (by position in
\* StatusFrames), protocol 20 a biz code; other protocol numbers carry neither.
BusFrames ==
    [protocol : {4}, devId : DeviceIds, bizCode : {"none"}, status : {1, 3}]
    \cup [protocol : {20}, devId : DeviceIds, bizCode : {"online", "offline", "nameUpdate"},
          status : {0}]
    \cup [protocol : {21}, devId : DeviceIds, bizCode : {"none"}, status : {0}]

\* A factory that knows biz code online only.
biz_data_online_only(bizCode) ==
    IF bizCode = "online" THEN "GoPresence" ELSE "Protocol20Identity"

\* Protocol20.from_payload: online and offline carry a GoPresence, any other biz code a
\* Protocol20Identity.
biz_data(bizCode) ==
    IF bizCode \in {"online", "offline"} THEN "GoPresence" ELSE "Protocol20Identity"

\* TuyaClient._process_socket, both branches.
process_socket(data) ==
    IF data.protocol = 4
    THEN IF data.devId \notin DOMAIN sockets_infos
         THEN UNCHANGED <<sockets_infos, recent_task, tasks>>
         ELSE /\ sockets_infos' = [sockets_infos EXCEPT ![data.devId] =
                      [update_from_status(@, StatusFrames[data.status]) EXCEPT !.rev = @ + 1]]
              /\ update_device(data.devId)
    ELSE IF data.protocol = 20 /\ biz_data(data.bizCode) = "GoPresence"
    THEN IF data.devId \notin DOMAIN sockets_infos
         THEN UNCHANGED <<sockets_infos, recent_task, tasks>>
         ELSE /\ sockets_infos' = [sockets_infos EXCEPT ![data.devId] =
                      [@ EXCEPT !.online = (data.bizCode = "online"), !.rev = @ + 1]]
              /\ update_device(data.devId)
    ELSE UNCHANGED <<sockets_infos, recent_task, tasks>>

\* The protocol numbers on_message has a factory for.
factory == {4, 20}

\* An on_message that indexes the factory without asking whether the number is in it.
on_message_indexing(data) ==
    /\ IF data.protocol \in factory
       THEN process_socket(data)
       ELSE UNCHANGED <<sockets_infos, recent_task, tasks>>
    /\ bus_call' = [handled |-> TRUE, frame |-> data, before |-> sockets_infos,
                    tasksBefore |-> Len(tasks), published |-> data.protocol \in factory,
                    raised |-> data.protocol \notin factory]
    /\ UNCHANGED <<socket_data, db, messages, content, frames, ainit>>
    /\ UNCHANGED <<roomVars, callVars, server, interaction, sends, startup, lateVars>>

\* TuyaClient.on_message: a frame with a known protocol number is parsed, processed and
\* published as a socket event; any other is printed and dropped.
on_message(data) ==
    /\ IF data.protocol \in factory
       THEN process_socket(data)
       ELSE UNCHANGED <<sockets_infos, recent_task, tasks>>
    /\ bus_call' = [handled |-> TRUE, frame |-> data, before |-> sockets_infos,
                    tasksBefore |-> Len(tasks), published |-> data.protocol \in factory,
                    raised |-> FALSE]
    /\ UNCHANGED <<socket_data, db, messages, content, frames, ainit>>
    /\ UNCHANGED <<roomVars, callVars, server, interaction, sends, startup, lateVars>>

\* ------------------------------------------------------- hydration (ainit)
\* SELECT * FROM device_info_view: the rows, in some order.
RECURSIVE Orders(_)
Orders(rows) ==
    IF rows = {} THEN {<<>>}
    ELSE UNION {{<<row>> \o rest : rest \in Orders(rows \ {row})} : row \in rows}

AinitFetch ==
    /\ ainit.pc = "fetch"
    /\ \E rows \in Orders(db) :
          ainit' = [ainit EXCEPT !.pc = "loop", !.rows = rows, !.fetched = rows]
    /\ UNCHANGED <<sockets_infos, recent_task, tasks, socket_data, db, messages, content,
                   frames>>
    /\ UNCHANGED notPanel

\* A loop that binds the row and forgets the refresh.
AinitRowNoRefresh ==
    /\ ainit.pc = "loop"
    /\ ainit.rows # <<>>
    /\ LET data == Head(ainit.rows)
           device == get_socket(data.device_id)
       IN IF device = NoSocket
          THEN /\ ainit' = [ainit EXCEPT !.pc = "failed"]
               /\ UNCHANGED socket_data
          ELSE /\ socket_data' = [socket_data EXCEPT ![device.id] =
                       [message |-> data.message_id, author |-> data.author_id,
                        device |-> device.id]]
               /\ ainit' = [ainit EXCEPT !.rows = Tail(@)]
    /\ UNCHANGED <<sockets_infos, recent_task, tasks, db, messages, content, frames>>
    /\ UNCHANGED notPanel

\* One turn of the loop: bind the row's message to the device and refresh it. A row
\* whose device is not cached makes device.id raise AttributeError.
AinitRow ==
    /\ ainit.pc = "loop"
    /\ ainit.rows # <<>>
    /\ LET data == Head(ainit.rows)
           device == get_socket(data.device_id)
       IN IF device = NoSocket
          THEN /\ ainit' = [ainit EXCEPT !.pc = "failed"]
               /\ UNCHANGED <<socket_data, frames>>
          ELSE /\ socket_data' = [socket_data EXCEPT ![device.id] =
                       [message |-> data.message_id, author |-> data.author_id,
                        device |-> device.id]]
               /\ frames' = [frames EXCEPT ![AinitCaller] =
                       [pc |-> "edit", dev |-> device.id, msg |-> data.message_id,
                        embed |-> format_device(device)]]
               /\ ainit' = [ainit EXCEPT !.pc = "dispatch", !.rows = Tail(@),
                                         !.edits = Append(@, data.message_id)]
    /\ UNCHANGED <<sockets_infos, recent_task, tasks, db, messages, content>>
    /\ UNCHANGED notPanel

AinitDone ==
    /\ ainit.pc = "loop"
    /\ ainit.rows = <<>>
    /\ ainit' = [ainit EXCEPT !.pc = "done"]
    /\ UNCHANGED <<sockets_infos, recent_task, tasks, socket_data, db, messages, content,
                   frames>>
    /\ UNCHANGED notPanel

\* ------------------------------------------------------------ core/models
\* The room-close workflow: CloseRoom, driven by the presence events on_state gets.
RoomFinished == {"done", "cancelled"}

NewRoomTask ==
    [st |-> "sleeping", cancelReq |-> FALSE, asked |-> 0, prompt |-> "none",
     answer |-> "none", cutBy |-> "none", cutAt |-> "none"]

\* Which event asked a running task to stop, and what the task was doing (history).
Cut(ts, t, by) ==
    IF t = 0 \/ ts[t].st \in RoomFinished \/ ts[t].cutBy # "none" THEN ts
    ELSE [ts EXCEPT ![t].cutBy = by, ![t].cutAt = ts[t].st]

RoomTaskCancel(ts, t) ==
    IF ts[t].st \in RoomFinished THEN ts ELSE [ts EXCEPT ![t].cancelReq = TRUE]

\* A cancel that tests done() the wrong way round.
cancelWhenDone ==
    IF room_task # 0 /\ room_tasks[room_task].st \in RoomFinished
    THEN /\ room_tasks' = Cut(room_tasks, room_task, "connected")
         /\ room_task' = 0
    ELSE /\ room_tasks' = Cut(room_tasks, room_task, "connected")
         /\ UNCHANGED room_task

\* CloseRoom.cancel: a task that is not done is cancelled and forgotten.
cancel ==
    IF room_task # 0 /\ room_tasks[room_task].st \notin RoomFinished
    THEN /\ room_tasks' = RoomTaskCancel(Cut(room_tasks, room_task, "connected"), room_task)
         /\ room_task' = 0
    ELSE UNCHANGED <<room_task, room_tasks>>

\* A do that arms the new timer and leaves the old task running.
doWithoutCancel ==
    /\ room_tasks' = Append(Cut(room_tasks, room_task, "disconnected"), NewRoomTask)
    /\ room_task' = Len(room_tasks) + 1

\* A do that arms a timer only while no task has ever been held.
doOnlyOnce ==
    IF room_task # 0
    THEN /\ room_tasks' = RoomTaskCancel(Cut(room_tasks, room_task, "disconnected"), room_task)
         /\ UNCHANGED room_task
    ELSE /\ room_tasks' = Append(room_tasks, NewRoomTask)
         /\ room_task' = Len(room_tasks) + 1

\* CloseRoom.do: the task held, if any, is cancelled, and a new one is created and held.
do ==
    /\ room_tasks' = Append(IF room_task # 0
                            THEN RoomTaskCancel(Cut(room_tasks, room_task, "disconnected"), room_task)
                            ELSE room_tasks,
                            NewRoomTask)
    /\ room_task' = Len(room_tasks) + 1

\* room.open(), awaited after cancel on "connected": it does not touch the workflow.
open == TRUE

\* IoTBot.on_state
on_state(state) ==
    /\ IF state = "connected" THEN cancel /\ open
       ELSE IF state = "disconnected" THEN Len(room_tasks) < MaxCycles /\ do
       ELSE UNCHANGED <<room_task, room_tasks>>
    /\ UNCHANGED <<room_socket, room_commands>>
    /\ UNCHANGED notRoom

\* self.prompt(''): the owner is sent the question and the task waits for the answer.
prompt(ts, t) == [ts EXCEPT ![t].asked = @ + 1, ![t].prompt = "open", ![t].st = "prompting"]

\* wait_until_action after asyncio.sleep(MAXIMUM_TIME_WAIT): ask() sends the prompt.
RoomTimerElapsed(t) ==
    /\ t \in 1..Len(room_tasks)
    /\ room_tasks[t].st = "sleeping"
    /\ ~room_tasks[t].cancelReq
    /\ room_tasks' = prompt(room_tasks, t)
    /\ UNCHANGED <<room_task, room_socket, room_commands>>
    /\ UNCHANGED notRoom

\* The owner answered: a true value goes on to fetch the devices, a false one ends ask.
PromptAnswered(t, value) ==
    /\ t \in 1..Len(room_tasks)
    /\ room_tasks[t].st = "prompting"
    /\ ~room_tasks[t].cancelReq
    /\ room_tasks' = [room_tasks EXCEPT ![t].prompt = "closed",
                                        ![t].answer = IF value THEN "yes" ELSE "no",
                                        ![t].st = IF value THEN "retrieving" ELSE "done"]
    /\ UNCHANGED <<room_task, room_socket, room_commands>>
    /\ UNCHANGED notRoom

\* Nobody answered: ask raises TimeoutError, which wait_until_action catches.
PromptTimedOut(t) ==
    /\ t \in 1..Len(room_tasks)
    /\ room_tasks[t].st = "prompting"
    /\ ~room_tasks[t].cancelReq
    /\ room_tasks' = [room_tasks EXCEPT ![t].prompt = "closed", ![t].answer = "timeout",
                                        ![t].st = "done"]
    /\ UNCHANGED <<room_task, room_socket, room_commands>>
    /\ UNCHANGED notRoom

\* The socket is already off with no countdown running.
AlreadyOff == room_socket.value = FALSE /\ room_socket.countdown = 0

\* retrieve_devices returned: with a device, set_device_value(device['id'], 0, 0) is
\* posted; with none, ask ends.
RetrieveDone(t, devices) ==
    /\ t \in 1..Len(room_tasks)
    /\ room_tasks[t].st = "retrieving"
    /\ ~room_tasks[t].cancelReq
    /\ IF devices # <<>>
       THEN /\ room_commands' = Append(room_commands,
                   [device |-> Head(devices), value |-> 0, countdown |-> 0,
                    alreadyOff |-> AlreadyOff, task |-> t])
            /\ room_tasks' = [room_tasks EXCEPT ![t].st = "commanding"]
       ELSE /\ room_tasks' = [room_tasks EXCEPT ![t].st = "done"]
            /\ UNCHANGED room_commands
    /\ UNCHANGED <<room_task, room_socket>>
    /\ UNCHANGED notRoom

\* The command's response arrived; a successful command has switched the socket off.
CommandDone(t, success) ==
    /\ t \in 1..Len(room_tasks)
    /\ room_tasks[t].st = "commanding"
    /\ ~room_tasks[t].cancelReq
    /\ room_tasks' = [room_tasks EXCEPT ![t].st = "done"]
    /\ room_socket' = IF success THEN [value |-> FALSE, countdown |-> 0] ELSE room_socket
    /\ UNCHANGED <<room_task, room_commands>>
    /\ UNCHANGED notRoom

\* The loop delivers CancelledError to a task asked to stop; a command already posted
\* may still switch the socket off.
RoomTaskCancelled(t) ==
    /\ t \in 1..Len(room_tasks)
    /\ room_tasks[t].st \notin RoomFinished
    /\ room_tasks[t].cancelReq
    /\ room_tasks' = [room_tasks EXCEPT ![t].st = "cancelled"]
    /\ \/ UNCHANGED room_socket
       \/ /\ room_tasks[t].st = "commanding"
          /\ room_socket' = [value |-> FALSE, countdown |-> 0]
    /\ UNCHANGED <<room_task, room_commands>>
    /\ UNCHANGED notRoom

\* The prompt of a cancelled task is still in the channel with its buttons: ask was
\* interrupted in wait(), and only a button press (_response) or the view's own timeout
\* (on_timeout) deletes the message. Nobody waits for the value any more.
LeftoverPromptClosed(t) ==
    /\ t \in 1..Len(room_tasks)
    /\ room_tasks[t].st = "cancelled"
    /\ room_tasks[t].prompt = "open"
    /\ room_tasks' = [room_tasks EXCEPT ![t].prompt = "closed"]
    /\ UNCHANGED <<room_task, room_socket, room_commands>>
    /\ UNCHANGED notRoom

\* ---------------------------------------------- tuya/client: single calls
\* TuyaClient.handle_result: a response that reports failure raises, MissingPermissions
\* for code 1106 and TuyaError otherwise; a successful one is handed back.
handle_result(result) ==
    IF ~result.success
    THEN [raised |-> IF result.code = 1106 THEN "TuyaMissingPermissions" ELSE "TuyaError",
          result |-> result]
    ELSE [raised |-> None, result |-> result]

\* The body set_device_value posts.
Commands(value, countdown) ==
    <<[code |-> "switch_1", value |-> value], [code |-> "countdown_1", value |-> countdown]>>

\* A set_device_value that skips the request when the cache already holds the values.
set_device_value_unless_cached(device_id, value, countdown) ==
    /\ set_call.pc = "idle"
    /\ IF /\ device_id \in DOMAIN sockets_infos
          /\ sockets_infos[device_id].value = value
          /\ sockets_infos[device_id].countdown = countdown
       THEN set_call' = [set_call EXCEPT !.pc = "returned", !.returned = TRUE,
                             !.args = [device_id |-> device_id, value |-> value,
                                       countdown |-> countdown]]
       ELSE set_call' = [set_call EXCEPT !.pc = "post",
                             !.args = [device_id |-> device_id, value |-> value,
                                       countdown |-> countdown],
                             !.requests = Append(@, [endpoint |-> device_id,
                                                     body |-> Commands(value, countdown)])]
    /\ UNCHANGED <<fetch_call, status_call, convert_call>>
    /\ UNCHANGED <<panelVars, roomVars, moreVars>>

\* TuyaClient.set_device_value up to its await: the two codes are posted to the
\* device's commands endpoint.
set_device_value(device_id, value, countdown) ==
    /\ set_call.pc = "idle"
    /\ set_call' = [set_call EXCEPT !.pc = "post",
                        !.args = [device_id |-> device_id, value |-> value,
                                  countdown |-> countdown],
                        !.requests = Append(@, [endpoint |-> device_id,
                                                body |-> Commands(value, countdown)])]
    /\ UNCHANGED <<fetch_call, status_call, convert_call>>
    /\ UNCHANGED <<panelVars, roomVars, moreVars>>

\* The responses the platform gives to a command.
CommandResponses ==
    << [success |-> TRUE, result |-> TRUE, code |-> 0],
       [success |-> TRUE, result |-> FALSE, code |-> 0],
       [success |-> FALSE, result |-> FALSE, code |-> 1106],
       [success |-> FALSE, result |-> FALSE, code |-> 1010] >>

\* post returned: handle_result raises or set_device_value returns value['result'].
SetDeviceValueResponded(response) ==
    /\ set_call.pc = "post"
    /\ LET sanitize == handle_result(response) IN
       set_call' = [set_call EXCEPT
                        !.pc = IF sanitize.raised = None THEN "returned" ELSE "raised",
                        !.response = response,
                        !.returned = IF sanitize.raised = None THEN sanitize.result.result ELSE @,
                        !.error = sanitize.raised]
    /\ UNCHANGED <<fetch_call, status_call, convert_call>>
    /\ UNCHANGED <<panelVars, roomVars, moreVars>>

\* TuyaClient.fetch_devices_info, first turn of the loop: the GET carries device_ids only.
FetchStart ==
    /\ fetch_call.pc = "idle"
    /\ fetch_call' = [fetch_call EXCEPT !.pc = "get",
                          !.requests = Append(@, fetch_call.params)]
    /\ UNCHANGED <<set_call, status_call, convert_call>>
    /\ UNCHANGED <<panelVars, roomVars, moreVars>>

\* The page the platform serves for a cursor: the first page without one, the page
\* after the one that handed the cursor out otherwise.
PageFor(params) == fetch_call.pages[params.last_row_key + 1]

\* A loop that leaves on has_more = false before it has kept the page's list.
FetchPageBreakFirst(success) ==
    /\ fetch_call.pc = "get"
    /\ LET cursor == PageFor(fetch_call.params) IN
       IF ~success
       THEN fetch_call' = [fetch_call EXCEPT !.pc = "raised"]
       ELSE IF ~cursor.has_more
       THEN fetch_call' = [fetch_call EXCEPT !.pc = "returned"]
       ELSE LET params == [fetch_call.params EXCEPT !.last_row_key = cursor.last_row_key] IN
            fetch_call' = [fetch_call EXCEPT !.results = @ \o cursor.list,
                                             !.params = params,
                                             !.requests = Append(@, params)]
    /\ UNCHANGED <<set_call, status_call, convert_call>>
    /\ UNCHANGED <<panelVars, roomVars, moreVars>>

\* One turn of the loop after get returned: the page's list is kept; the loop ends on
\* has_more = false and otherwise repeats the GET with the page's last_row_key.
FetchPage(success) ==
    /\ fetch_call.pc = "get"
    /\ LET cursor == PageFor(fetch_call.params) IN
       IF ~success
       THEN fetch_call' = [fetch_call EXCEPT !.pc = "raised"]
       ELSE IF ~cursor.has_more
       THEN fetch_call' = [fetch_call EXCEPT !.pc = "returned",
                                             !.results = @ \o cursor.list]
       ELSE LET params == [fetch_call.params EXCEPT !.last_row_key = cursor.last_row_key] IN
            fetch_call' = [fetch_call EXCEPT !.results = @ \o cursor.list,
                                             !.params = params,
                                             !.requests = Append(@, params)]
    /\ UNCHANGED <<set_call, status_call, convert_call>>
    /\ UNCHANGED <<panelVars, roomVars, moreVars>>

\* -------------------------------------------- tuya/models: a status applied
\* The status items a list is drawn from, by position.
StatusItems ==
    << [code |-> "switch_1", value |-> TRUE],   [code |-> "switch_1", value |-> FALSE],
       [code |-> "countdown_1", value |-> 0],   [code |-> "countdown_1", value |-> 1],
       [code |-> "cur_current", value |-> 0],   [code |-> "cur_current", value |-> 1],
       [code |-> "cur_voltage", value |-> 0],   [code |-> "cur_voltage", value |-> 1],
       [code |-> "cur_power", value |-> 0],     [code |-> "cur_power", value |-> 1],
       [code |-> "doorcontact_state", value |-> 1] >>

ItemsAt(positions) == [i \in DOMAIN positions |-> StatusItems[positions[i]]]

\* The list is applied to the Socket once more.
ApplyStatus ==
    /\ status_call.n < 2
    /\ LET socket == update_from_status(status_call.socket, ItemsAt(status_call.list)) IN
       status_call' = [status_call EXCEPT !.socket = socket, !.n = @ + 1,
                           !.once = IF status_call.n = 0 THEN socket ELSE @]
    /\ UNCHANGED <<set_call, fetch_call, convert_call>>
    /\ UNCHANGED <<panelVars, roomVars, moreVars>>

\* ----------------------------------------------------------- core/converter
\* tuya.get_device: the cached device with the id, or nothing.
NoDevice == [id |-> None, name |-> None]

get_device(devices, id) ==
    IF \E i \in DOMAIN devices : devices[i].id = id
    THEN devices[CHOOSE i \in DOMAIN devices : devices[i].id = id]
    ELSE NoDevice

\* discord.utils.get(devices, name=...): the first device with the name, or nothing.
utils_get(devices, name) ==
    IF \E i \in DOMAIN devices : devices[i].name = name
    THEN devices[CHOOSE i \in DOMAIN devices :
                     /\ devices[i].name = name
                     /\ \A j \in DOMAIN devices : devices[j].name = name => i <= j]
    ELSE NoDevice

\* A convert that tries the name before the id.
convertNameFirst(argument) ==
    /\ convert_call.pc = "idle"
    /\ LET byName == utils_get(convert_call.devices, argument)
           device == IF byName = NoDevice THEN get_device(convert_call.devices, argument)
                     ELSE byName
       IN convert_call' = [convert_call EXCEPT
              !.pc = IF device = NoDevice THEN "raised" ELSE "returned",
              !.argument = argument,
              !.device = device,
              !.error = IF device = NoDevice
                        THEN <<"No device name or id found with '", argument, "'">> ELSE <<>>]
    /\ UNCHANGED <<set_call, fetch_call, status_call>>
    /\ UNCHANGED <<panelVars, roomVars, moreVars>>

\* DeviceConverter.convert: the id is tried, then the name; nothing found raises
\* CommandError with the argument in its text.
convert(argument) ==
    /\ convert_call.pc = "idle"
    /\ LET byId == get_device(convert_call.devices, argument)
           device == IF byId = NoDevice THEN utils_get(convert_call.devices, argument)
                     ELSE byId
       IN convert_call' = [convert_call EXCEPT
              !.pc = IF device = NoDevice THEN "raised" ELSE "returned",
              !.argument = argument,
              !.device = device,
              !.error = IF device = NoDevice
                        THEN <<"No device name or id found with '", argument, "'">> ELSE <<>>]
    /\ UNCHANGED <<set_call, fetch_call, status_call>>
    /\ UNCHANGED <<panelVars, roomVars, moreVars>>

\* ------------------------------------------------- core/models: Webserver
\* Python values whose type matters to ==: a str, None, a member of the Enum Event.
PyStr(v) == [type |-> "str", value |-> v]
PyNone == [type |-> "NoneType", value |-> "None"]
STELLA_STATE == [type |-> "Event", value |-> "stella_state"]

\* a == b in Python: a str and a member of a plain Enum are never equal.
PyEq(a, b) == a.type = b.type /\ a.value = b.value

\* The text frames the presence service may send: text that is not JSON, a JSON value
\* that is not an object, and objects with or without event, data, state and when.
PresenceFrames ==
    {f \in [json : BOOLEAN, object : BOOLEAN, event : {"None", "stella_state", "state", "ping"},
            hasData : BOOLEAN, hasState : BOOLEAN, hasWhen : BOOLEAN,
            state : {"connected", "disconnected"}] :
        /\ ~f.json => ~f.object
        /\ ~f.object => f.event = "None" /\ ~f.hasData
        /\ ~f.hasData => ~f.hasState /\ ~f.hasWhen
        /\ ~f.hasState => f.state = "connected"}

\* payload.get('event')
get_event(f) == IF f.event = "None" THEN PyNone ELSE PyStr(f.event)

\* One turn of the loop of Webserver.listen on a frame: json.loads failing is caught
\* and the frame skipped; get on a value that is no dict raises AttributeError; an
\* event equal to Event.STELLA_STATE reads data, state and when (KeyError when one is
\* absent) and calls bot.dispatch with the Enum member, which discord.py turns into
\* 'on_' + event, a TypeError; anything else is printed and ignored.
listen(f) ==
    IF ~f.json THEN "skipped"
    ELSE IF ~f.object THEN "AttributeError"
    ELSE IF PyEq(get_event(f), STELLA_STATE)
    THEN IF ~f.hasData \/ ~f.hasState \/ ~f.hasWhen THEN "KeyError" ELSE "TypeError"
    ELSE "ignored"

\* The presence-state events a turn of the loop delivered to the bot.
Delivered(result) == IF result = "dispatched" THEN 1 ELSE 0

\* websockets.connect(BASE), iterated: one connection attempt. A failed attempt (the
\* handshake rejected with a status such as 403, the connection refused) sends the
\* iterator into its backoff sleep.
Connect(outcome) ==
    /\ server.pc = "connect"
    /\ server.attempts < MaxAttempts
    /\ server' = [server EXCEPT !.pc = IF outcome = "open" THEN "listen" ELSE "backoff",
                                !.attempts = @ + 1,
                                !.log = @ \o <<"attempt", outcome>>]
    /\ UNCHANGED <<notShell, bus_call, interaction, sends, startup, lateVars>>

\* The iterator's backoff sleep is over: the next attempt follows.
BackoffElapsed ==
    /\ server.pc = "backoff"
    /\ server' = [server EXCEPT !.pc = "connect", !.log = Append(@, "backoff")]
    /\ UNCHANGED <<notShell, bus_call, interaction, sends, startup, lateVars>>

\* A frame arrives on the open connection. An exception other than ConnectionClosed
\* leaves listen and Webserver.start, whose except clause does not catch it.
Receive(f) ==
    /\ server.pc = "listen"
    /\ LET result == listen(f) IN
       server' = [server EXCEPT
                      !.pc = IF result \in {"skipped", "ignored", "dispatched"} THEN "listen"
                             ELSE "ended",
                      !.last = f,
                      !.lastResult = result,
                      !.delivered = Delivered(result),
                      !.error = IF result \in {"skipped", "ignored", "dispatched"} THEN @
                                ELSE result]
    /\ UNCHANGED <<notShell, bus_call, interaction, sends, startup, lateVars>>

\* The connection closes: the frame iterator ends (closed normally) or listen raises
\* ConnectionClosed, which start catches; either way the connect iterator goes on.
ConnectionLost(normally) ==
    /\ server.pc = "listen"
    /\ server' = [server EXCEPT !.pc = "connect",
                                !.log = Append(@, IF normally THEN "closed" ELSE "lost")]
    /\ UNCHANGED <<notShell, bus_call, interaction, sends, startup, lateVars>>

\* ------------------------------------------------- core/views: interactions
\* discord.py runs one task per component interaction: the view's interaction_check,
\* then the button's callback when the check returned True, and on_error when either
\* raised.
Users == {"u1", "u2"}

notInteraction == <<roomVars, callVars, bus_call, server, sends, startup, lateVars>>

\* The row fetch_data finds for the interaction's message, if there is one.
RowsOf(message_id) == {row \in db : row.message_id = message_id}

\* A check that lets every user through.
interaction_check_anyone(user, author) == TRUE

\* DeviceControl.interaction_check, after fetch_data: only the bound author passes.
interaction_check(user, author) == user = author

\* A prompt check that lets every user through.
prompt_interaction_check_anyone(user, owner) == TRUE

\* ViewPrompt.interaction_check: only the user the prompt was sent for passes.
prompt_interaction_check(user, owner) == user = owner

\* A button of a control panel is pressed: the task starts with interaction_check,
\* which awaits fetch_data's query.
InteractPanel(user, value, message_id) ==
    /\ interaction.pc \in {"idle", "done"}
    /\ interaction.n < MaxInteractions
    /\ ~interaction.panelStopped
    /\ interaction' = [interaction EXCEPT
           !.pc = "check", !.n = @ + 1, !.view = "panel", !.user = user, !.value = value,
           !.message = message_id, !.author = None, !.device = None, !.error = None,
           !.before = [sockets |-> sockets_infos, db |-> db,
                       commands |-> interaction.commands, prompt |-> interaction.prompt]]
    /\ UNCHANGED panelVars
    /\ UNCHANGED notInteraction

\* fetch_data's row arrived: no row or no cached device is a FatalViewError, which
\* on_error answers by stopping the view; otherwise the view data is put under the
\* device id and the author is checked.
PanelChecked ==
    /\ interaction.pc = "check"
    /\ IF RowsOf(interaction.message) = {}
       THEN /\ interaction' = [interaction EXCEPT !.pc = "done", !.error = "FatalViewError",
                                                  !.panelStopped = TRUE]
            /\ UNCHANGED socket_data
       ELSE \E row \in RowsOf(interaction.message) :
            IF get_socket(row.device_id) = NoSocket
            THEN /\ interaction' = [interaction EXCEPT !.pc = "done",
                                        !.error = "FatalViewError", !.panelStopped = TRUE]
                 /\ UNCHANGED socket_data
            ELSE /\ socket_data' = [socket_data EXCEPT ![row.device_id] =
                         [message |-> interaction.message, author |-> row.author_id,
                          device |-> row.device_id]]
                 /\ interaction' = [interaction EXCEPT
                        !.author = row.author_id, !.device = row.device_id,
                        !.pc = IF interaction_check(interaction.user, row.author_id)
                               THEN "callback" ELSE "done",
                        !.error = IF interaction_check(interaction.user, row.author_id)
                                  THEN None ELSE "NotAuthorError"]
    /\ UNCHANGED <<sockets_infos, recent_task, tasks, db, messages, content, frames, ainit>>
    /\ UNCHANGED notInteraction

\* DeviceControl._response up to set_device_value: the command is posted.
PanelCommand ==
    /\ interaction.pc = "callback"
    /\ interaction' = [interaction EXCEPT !.pc = "command", !.commands = @ + 1]
    /\ UNCHANGED panelVars
    /\ UNCHANGED notInteraction

\* set_device_value returned or raised. On success the cached Socket takes the value
\* (and no current or power when closed) and dispatch_update is called.
PanelCommandDone(outcome) ==
    /\ interaction.pc = "command"
    /\ IF outcome = "success"
       THEN /\ sockets_infos' = [sockets_infos EXCEPT ![interaction.device] =
                    IF interaction.value
                    THEN [@ EXCEPT !.value = TRUE, !.rev = @ + 1]
                    ELSE [@ EXCEPT !.value = FALSE, !.current = 0, !.power = 0, !.rev = @ + 1]]
            /\ LET data == socket_data[interaction.device] IN
               interaction' = [interaction EXCEPT
                   !.pc = IF data = NoData THEN "done" ELSE "edit",
                   !.edit = IF data = NoData THEN NoFrame
                            ELSE [pc |-> "edit", dev |-> interaction.device,
                                  msg |-> data.message,
                                  embed |-> format_device(sockets_infos'[data.device])]]
       ELSE /\ interaction' = [interaction EXCEPT !.pc = "done",
                                   !.error = IF outcome = "raised" THEN "TuyaError" ELSE None]
            /\ UNCHANGED sockets_infos
    /\ UNCHANGED <<recent_task, tasks, socket_data, db, messages, content, frames, ainit>>
    /\ UNCHANGED notInteraction

\* The callback's dispatch_update: the edit succeeded.
ResponseEdited ==
    /\ interaction.pc = "edit"
    /\ interaction.edit.msg \in messages
    /\ content' = [content EXCEPT ![interaction.edit.msg] = interaction.edit.embed]
    /\ interaction' = [interaction EXCEPT !.pc = "done", !.edit = NoFrame]
    /\ UNCHANGED <<sockets_infos, recent_task, tasks, socket_data, db, messages, frames, ainit>>
    /\ UNCHANGED notInteraction

\* The callback's dispatch_update: the message is gone, the entry is popped.
ResponseNotFound ==
    /\ interaction.pc = "edit"
    /\ interaction.edit.msg \notin messages
    /\ socket_data' = [socket_data EXCEPT ![interaction.edit.dev] = NoData]
    /\ interaction' = [interaction EXCEPT !.pc = "delete"]
    /\ UNCHANGED <<sockets_infos, recent_task, tasks, db, messages, content, frames, ainit>>
    /\ UNCHANGED notInteraction

\* The callback's dispatch_update: the binding of the missing message is deleted.
ResponseDeleted ==
    /\ interaction.pc = "delete"
    /\ db' = {row \in db : row.message_id # interaction.edit.msg}
    /\ interaction' = [interaction EXCEPT !.pc = "done", !.edit = NoFrame]
    /\ UNCHANGED <<sockets_infos, recent_task, tasks, socket_data, messages, content, frames,
                   ainit>>
    /\ UNCHANGED notInteraction

\* A button of the pending prompt is pressed. interaction_check has no await: the
\* check and, when it passes, _response's self.value = value run in one step.
InteractPrompt(user, value) ==
    /\ interaction.pc \in {"idle", "done"}
    /\ interaction.n < MaxInteractions
    /\ ~interaction.prompt.stopped
    /\ LET allow == prompt_interaction_check(user, interaction.prompt.user) IN
       interaction' = [interaction EXCEPT
           !.pc = IF allow THEN "respond" ELSE "done",
           !.n = @ + 1, !.view = "prompt", !.user = user, !.value = value,
           !.message = None, !.author = interaction.prompt.user, !.device = None,
           !.error = IF allow THEN None ELSE "NotAuthorError",
           !.prompt = IF allow
                      THEN [@ EXCEPT !.value = IF value THEN "True" ELSE "False"] ELSE @,
           !.before = [sockets |-> sockets_infos, db |-> db,
                       commands |-> interaction.commands, prompt |-> interaction.prompt]]
    /\ UNCHANGED panelVars
    /\ UNCHANGED notInteraction

\* ViewPrompt._response after its awaits: stop() lets ask return the value.
PromptResponded ==
    /\ interaction.pc = "respond"
    /\ interaction' = [interaction EXCEPT !.pc = "done", !.prompt.stopped = TRUE]
    /\ UNCHANGED panelVars
    /\ UNCHANGED notInteraction

\* ------------------------------------------------------ core/views: send
\* The ids of the messages ctx.send creates, in the order the sends were started.
SentIds == <<"s1", "s2", "s3", "s4">>

notSend == <<roomVars, callVars, bus_call, server, interaction, startup, lateVars>>

\* control_socket calls DeviceControl().send: the panel message is being sent.
SendStart(device_id, author) ==
    /\ Len(sends.calls) < MaxSends
    /\ sends' = [sends EXCEPT !.calls = Append(@,
           [pc |-> "send", device_id |-> device_id, author |-> author,
            message |-> SentIds[Len(sends.calls) + 1], had |-> FALSE, object |-> 0,
            sentAt |-> 0])]
    /\ UNCHANGED panelVars
    /\ UNCHANGED notSend

\* ctx.send returned the message; store_data reads the view data of the device. With
\* view data, the old message is deleted (delete(delay=0) leaves that to a task of its
\* own) and the DELETE by device_id is awaited; without, the INSERT is awaited.
SendSent(i) ==
    /\ i \in DOMAIN sends.calls
    /\ sends.calls[i].pc = "send"
    /\ LET call == sends.calls[i]
           view_data == socket_data[call.device_id]
       IN /\ messages' = IF view_data = NoData THEN messages \cup {call.message}
                         ELSE (messages \ {view_data.message}) \cup {call.message}
          /\ sends' = [sends EXCEPT !.clock = @ + 1,
                 !.calls[i].sentAt = sends.clock + 1,
                 !.calls[i].had = (view_data # NoData),
                 !.calls[i].object = sends.holder[call.device_id],
                 !.calls[i].pc = IF view_data = NoData THEN "insert" ELSE "delete"]
    /\ UNCHANGED <<sockets_infos, recent_task, tasks, socket_data, db, content, frames, ainit>>
    /\ UNCHANGED notSend

\* DELETE FROM device_info_view WHERE device_id=$1 ran; the INSERT is awaited.
SendDeleted(i) ==
    /\ i \in DOMAIN sends.calls
    /\ sends.calls[i].pc = "delete"
    /\ db' = {row \in db : row.device_id # sends.calls[i].device_id}
    /\ sends' = [sends EXCEPT !.calls[i].pc = "insert"]
    /\ UNCHANGED <<sockets_infos, recent_task, tasks, socket_data, messages, content, frames,
                   ainit>>
    /\ UNCHANGED notSend

\* The INSERT ran. A table keyed by device id rejects a second row of the device and
\* store_data raises; otherwise the row is kept and the view data the call had read is
\* given the new message and author (which shows only while that object is still the
\* one under the device id) or, when it had read none, a new one is put under the
\* device id.
SendInserted(i) ==
    /\ i \in DOMAIN sends.calls
    /\ sends.calls[i].pc = "insert"
    /\ LET call == sends.calls[i]
           data == [message |-> call.message, author |-> call.author,
                    device |-> call.device_id]
       IN IF sends.unique /\ \E row \in db : row.device_id = call.device_id
          THEN /\ sends' = [sends EXCEPT !.calls[i].pc = "raised"]
               /\ UNCHANGED <<db, socket_data>>
          ELSE /\ db' = db \cup {[device_id |-> call.device_id, author_id |-> call.author,
                                  message_id |-> call.message, channel_id |-> "c1"]}
               /\ IF call.had
                  THEN /\ socket_data' =
                              IF /\ sends.holder[call.device_id] = call.object
                                 /\ socket_data[call.device_id] # NoData
                              THEN [socket_data EXCEPT ![call.device_id] = data]
                              ELSE socket_data
                       /\ sends' = [sends EXCEPT !.calls[i].pc = "done"]
                  ELSE /\ socket_data' = [socket_data EXCEPT ![call.device_id] = data]
                       /\ sends' = [sends EXCEPT !.calls[i].pc = "done",
                                                 !.holder[call.device_id] = i]
    /\ UNCHANGED <<sockets_infos, recent_task, tasks, messages, content, frames, ainit>>
    /\ UNCHANGED notSend

\* ------------------------------------- tuya/client: the push bus's own thread
\* iot_hub is a thread of its own and calls the listener connect registered, on_message,
\* from that thread; the event loop's handlers run on the main thread. Python switches
\* threads between bytecodes, so each access to a Socket attribute is a step.
notThreads == <<socket_data, db, messages, content, frames, ainit, roomVars, callVars,
                bus_call, server, interaction, sends, startup, prompt_view, objects>>

\* on_message on the bus thread, protocol 4: _process_socket looks the socket up and
\* returns when the cache has none.
MqttOnMessage(dev_id, status) ==
    /\ threads.mqtt.pc = "idle"
    /\ Len(tasks) < MaxTasks
    /\ threads' = [threads EXCEPT !.mqtt =
           IF dev_id \in DOMAIN sockets_infos
           THEN [pc |-> "update_from_status", dev |-> dev_id, status |-> status]
           ELSE @]
    /\ UNCHANGED <<sockets_infos, recent_task, tasks>>
    /\ UNCHANGED notThreads

\* update_from_status on the bus thread: one setattr per status item.
MqttSetattr ==
    /\ threads.mqtt.pc = "update_from_status"
    /\ threads.mqtt.status # <<>>
    /\ sockets_infos' = [sockets_infos EXCEPT ![threads.mqtt.dev] =
           update_from_status(@, <<Head(threads.mqtt.status)>>)]
    /\ threads' = [threads EXCEPT !.mqtt.status = Tail(@), !.writer = "mqtt"]
    /\ UNCHANGED <<recent_task, tasks>>
    /\ UNCHANGED notThreads

\* bot.update_device, still on the bus thread: the refresh task is created from there.
MqttUpdateDevice ==
    /\ threads.mqtt.pc = "update_from_status"
    /\ threads.mqtt.status = <<>>
    /\ UNCHANGED sockets_infos
    /\ update_device(threads.mqtt.dev)
    /\ threads' = [threads EXCEPT !.mqtt = [pc |-> "idle", dev |-> None, status |-> <<>>]]
    /\ UNCHANGED notThreads

\* A handler of the loop renders a device: format_device has read value and online.
LoopFormatDevice(device_id) ==
    /\ threads.loop.pc = "idle"
    /\ threads' = [threads EXCEPT !.loop =
           [pc |-> "format_device", dev |-> device_id, read |-> sockets_infos[device_id]]]
    /\ UNCHANGED <<sockets_infos, recent_task, tasks>>
    /\ UNCHANGED notThreads

\* format_device reads the remaining attributes and the embed is complete.
LoopFormatted ==
    /\ threads.loop.pc = "format_device"
    /\ threads' = [threads EXCEPT
           !.loop = [pc |-> "idle", dev |-> None, read |-> NoSocket],
           !.embed = format_device([sockets_infos[threads.loop.dev] EXCEPT
                                        !.value = threads.loop.read.value,
                                        !.online = threads.loop.read.online])]
    /\ UNCHANGED <<sockets_infos, recent_task, tasks>>
    /\ UNCHANGED notThreads

\* ------------------------------------ tuya/client and core/views: Socket objects
\* A Socket is an object: the cache maps a device id to one, and a ViewDataDevice keeps
\* the one it was built with. objects.heap holds the objects, the others their indices.
notObjects == <<notShell, bus_call, server, interaction, sends, startup, prompt_view,
                threads>>

\* ainit, store_data and fetch_data build the view data of a device with the Socket
\* get_socket returns at that moment.
ViewDataBound(device_id) ==
    /\ objects.data[device_id] # objects.cache[device_id]
    /\ objects' = [objects EXCEPT !.data[device_id] = objects.cache[device_id]]
    /\ UNCHANGED notObjects

\* _process_socket: the status goes to the Socket the cache holds under the id.
ObjectReported(device_id, status) ==
    /\ objects' = [objects EXCEPT !.heap[objects.cache[device_id]] =
                       update_from_status(@, status)]
    /\ objects'.heap # objects.heap
    /\ UNCHANGED notObjects

\* cache_fill: fetch_sockets builds new Socket objects from the inventory and their
\* status, and _sockets_infos becomes a new dictionary of them.
cache_fill(values) ==
    /\ objects.fills < MaxFills
    /\ LET n == Len(objects.heap) IN
       objects' = [objects EXCEPT
           !.heap = @ \o <<[NewSocket("d1", "d1") EXCEPT !.value = values[1]],
                           [NewSocket("d2", "d2") EXCEPT !.value = values[2]]>>,
           !.cache = [d \in CachedIds |-> IF d = "d1" THEN n + 1 ELSE n + 2],
           !.fills = @ + 1]
    /\ UNCHANGED notObjects

\* dispatch_update: the embed is rendered from data.device, the object the view data
\* holds.
ObjectDispatched(device_id) ==
    /\ objects.data[device_id] # 0
    /\ objects' = [objects EXCEPT !.shown[device_id] =
           [embed |-> format_device(objects.heap[objects.data[device_id]]),
            object |-> objects.data[device_id], fills |-> objects.fills]]
    /\ objects'.shown # objects.shown
    /\ UNCHANGED notObjects

\* --------------------------------------------------- core/views: ViewPrompt
notPrompt == <<notShell, bus_call, server, interaction, sends, startup, threads, objects>>

\* Python's truth values as ViewPrompt.value holds them (None while nobody answered).
PyBool(value) == IF value THEN "True" ELSE "False"

\* ask: the question is sent with the view, which starts the view's timeout.
ViewAskSent ==
    /\ prompt_view.ask = "send"
    /\ prompt_view' = [prompt_view EXCEPT !.ask = "wait", !.message = "sent"]
    /\ UNCHANGED notPrompt

\* A button is pressed (on_confirm is True, on_cancel is False); a stopped view gets no
\* more presses. interaction_check and, when it lets the user through, the callback up
\* to its first await run in one step: self.value is assigned before the reply is sent.
ViewPressed(user, value) ==
    /\ prompt_view.message = "sent"
    /\ prompt_view.stopped = "no"
    /\ Len(prompt_view.presses) < MaxPresses
    /\ LET allow == prompt_interaction_check(user, prompt_view.user) IN
       prompt_view' = [prompt_view EXCEPT
           !.presses = Append(@, [user |-> user, value |-> PyBool(value),
                                  pc |-> IF allow THEN "reply" ELSE "NotAuthorError"]),
           !.value = IF allow THEN PyBool(value) ELSE @]
    /\ UNCHANGED notPrompt

\* _response after interaction.response.send_message: message.delete(delay=0) leaves
\* the deletion to a task of its own and stop() ends the view. A reply that fails raises
\* into on_error and the handler ends there.
ViewResponded(i, replied) ==
    /\ i \in DOMAIN prompt_view.presses
    /\ prompt_view.presses[i].pc = "reply"
    /\ prompt_view' =
           IF replied
           THEN [prompt_view EXCEPT !.presses[i].pc = "done",
                                    !.deletes = @ + 1,
                                    !.stopped = IF @ = "no" THEN "stop" ELSE @]
           ELSE [prompt_view EXCEPT !.presses[i].pc = "HTTPException"]
    /\ UNCHANGED notPrompt

\* The view's timeout elapses: the view is stopped and on_timeout deletes the message,
\* again through message.delete(delay=0).
ViewTimeout ==
    /\ prompt_view.message = "sent"
    /\ prompt_view.stopped = "no"
    /\ prompt_view' = [prompt_view EXCEPT !.stopped = "timeout", !.deletes = @ + 1]
    /\ UNCHANGED notPrompt

\* A deletion task runs: the message is deleted, or was already (NotFound is swallowed).
ViewMessageDeleted ==
    /\ prompt_view.deletes > 0
    /\ prompt_view' = [prompt_view EXCEPT !.deletes = @ - 1, !.message = "deleted"]
    /\ UNCHANGED notPrompt

\* ask after self.wait(): no value raises TimeoutError, otherwise the value is returned.
ViewAskReturns ==
    /\ prompt_view.ask = "wait"
    /\ prompt_view.stopped # "no"
    /\ prompt_view' = [prompt_view EXCEPT
           !.ask = "done",
           !.result = IF prompt_view.value = None THEN "TimeoutError" ELSE prompt_view.value]
    /\ UNCHANGED notPrompt

\* --------------------------------------------------- core/client: _startup
notStartup == <<notShell, bus_call, server, interaction, sends, lateVars>>

\* The asynchronous tasks of the loop other than _startup itself.
Running(task) == task \in {"running"}

\* A cleanup that leaves the listener alone.
cleanup_nothing(hub) == hub

\* TuyaClient.cleanup: the push-bus listener is stopped.
cleanup(hub) == IF hub = "started" THEN "stopped" ELSE hub

\* Webserver.run: the reconnect loop becomes a task of the loop.
run(task) == "running"

\* Webserver.stop: the reconnect loop's task is stopped.
stop(task) == "stopped"

\* async with self: the bot is entered.
EnterBot ==
    /\ startup.pc = "bot"
    /\ startup' = [startup EXCEPT !.pc = "tuya", !.entered = Append(@, "bot")]
    /\ UNCHANGED notStartup

\* async with self.tuya_client: connect. A refused login raises before the listener
\* is started; a failing cache_fill raises after iot_hub.start(), and __aexit__ of a
\* context that was never entered is not called.
EnterTuya(outcome) ==
    /\ startup.pc = "tuya"
    /\ startup' =
           IF outcome = "ok"
           THEN [startup EXCEPT !.pc = "pool", !.entered = Append(@, "tuya"), !.hub = "started"]
           ELSE [startup EXCEPT !.pc = "unwind", !.exit = "raised",
                                !.hub = IF outcome = "cache_fill" THEN "started" ELSE @]
    /\ UNCHANGED notStartup

\* await self.connect_to_db() as self.pool
EnterPool(connected) ==
    /\ startup.pc = "pool"
    /\ startup' =
           IF connected
           THEN [startup EXCEPT !.pc = "session", !.entered = Append(@, "pool")]
           ELSE [startup EXCEPT !.pc = "unwind", !.exit = "raised"]
    /\ UNCHANGED notStartup

\* aiohttp.ClientSession() as self.session, then the body up to await self.start: the
\* webhook handle (a malformed URL raises), the panel view, whose __init__ creates the
\* ainit task, and server.run().
EnterSession(webhook) ==
    /\ startup.pc = "session"
    /\ startup' =
           IF webhook
           THEN [startup EXCEPT !.pc = "serve", !.entered = Append(@, "session"),
                                !.ainit = "running", !.server = run(@), !.served = TRUE]
           ELSE [startup EXCEPT !.pc = "unwind", !.entered = Append(@, "session"),
                                !.exit = "raised"]
    /\ UNCHANGED notStartup

\* While the bot serves: the ainit task runs to its end.
AinitTaskEnds ==
    /\ startup.pc = "serve"
    /\ Running(startup.ainit)
    /\ startup' = [startup EXCEPT !.ainit = "done"]
    /\ UNCHANGED notStartup

\* While the bot serves: the reconnect loop ends by itself with an exception.
ServerTaskEnds ==
    /\ startup.pc = "serve"
    /\ Running(startup.server)
    /\ startup' = [startup EXCEPT !.server = "ended"]
    /\ UNCHANGED notStartup

\* await self.start(...) is over: it returned, it raised, or the task was cancelled.
ServeEnds(exit) ==
    /\ startup.pc = "serve"
    /\ startup' = [startup EXCEPT !.pc = "unwind", !.exit = exit]
    /\ UNCHANGED notStartup

\* The async with statement leaves its contexts, last entered first.
Exit ==
    /\ startup.pc = "unwind"
    /\ startup.entered # <<>>
    /\ LET resource == startup.entered[Len(startup.entered)] IN
       startup' = [startup EXCEPT
           !.entered = SubSeq(@, 1, Len(@) - 1),
           !.released = @ \cup {resource},
           !.hub = IF resource = "tuya" THEN cleanup(@) ELSE @]
    /\ UNCHANGED notStartup

\* After the with statement: server.stop() when the body ended normally; an exception
\* leaves _startup at the with statement.
AfterWith ==
    /\ startup.pc = "unwind"
    /\ startup.entered = <<>>
    /\ startup' = [startup EXCEPT
           !.pc = "finish",
           !.server = IF startup.exit = "returned" THEN stop(@) ELSE @]
    /\ UNCHANGED notStartup

\* asyncio.run after _startup: every task the loop still has is cancelled and the loop
\* is closed.
RunFinishes ==
    /\ startup.pc = "finish"
    /\ startup' = [startup EXCEPT
           !.pc = "closed",
           !.server = IF Running(@) THEN "cancelled" ELSE @,
           !.ainit = IF Running(@) THEN "cancelled" ELSE @]
    /\ UNCHANGED notStartup

\* ------------------------------------------------------------ environment
\* Somebody deletes a panel message on the chat platform.
MessageDeleted(m) ==
    /\ m \in messages
    /\ messages' = messages \ {m}
    /\ UNCHANGED <<sockets_infos, recent_task, tasks, socket_data, db, content, frames,
                   ainit>>
    /\ UNCHANGED notPanel

\* ------------------------------------------------------------------- Spec
Row(d) == [device_id |-> d, author_id |-> "u1", message_id |-> MessageOf[d], channel_id |-> "c1"]

\* The parts of the state a specification does not exercise stay as constructed.
PanelIdle ==
    /\ sockets_infos = [d \in CachedIds |-> NewSocket(d, d)]
    /\ recent_task = [d \in CachedIds |-> 0]
    /\ tasks = <<>>
    /\ socket_data = [d \in CachedIds |-> NoData]
    /\ db = {}
    /\ messages = {}
    /\ content = [m \in MessageIds |-> NoEmbed]
    /\ frames = [c \in Callers |-> NoFrame]
    /\ ainit = [pc |-> "done", rows |-> <<>>, fetched |-> <<>>, edits |-> <<>>]

RoomIdle ==
    /\ room_task = 0
    /\ room_tasks = <<>>
    /\ room_socket = [value |-> FALSE, countdown |-> 0]
    /\ room_commands = <<>>

CallsIdle ==
    /\ set_call = <<>>
    /\ fetch_call = <<>>
    /\ status_call = <<>>
    /\ convert_call = <<>>

LateIdle ==
    /\ prompt_view = <<>>
    /\ threads = <<>>
    /\ objects = <<>>

MoreIdle ==
    /\ bus_call = <<>>
    /\ server = <<>>
    /\ interaction = <<>>
    /\ sends = <<>>
    /\ startup = <<>>
    /\ LateIdle

\* The running bot: hydration is over and some devices have a panel bound.
Init ==
    /\ MoreIdle
    /\ RoomIdle
    /\ CallsIdle
    /\ sockets_infos = [d \in CachedIds |-> NewSocket(d, d)]
    /\ recent_task = [d \in CachedIds |-> 0]
    /\ tasks = <<>>
    /\ \E bound \in SUBSET CachedIds :
          /\ db = {Row(d) : d \in bound}
          /\ socket_data = [d \in CachedIds |-> IF d \in bound
                THEN [message |-> MessageOf[d], author |-> "u1", device |-> d] ELSE NoData]
          /\ messages = {MessageOf[d] : d \in bound}
    /\ content = [m \in MessageIds |-> NoEmbed]
    /\ frames = [c \in Callers |-> NoFrame]
    /\ ainit = [pc |-> "done", rows |-> <<>>, fetched |-> <<>>, edits |-> <<>>]

Next ==
    \/ \E d \in DeviceIds, i \in DOMAIN StatusFrames : ReportStatus(d, StatusFrames[i])
    \/ \E t \in 1..MaxTasks : TaskWake(t)
    \/ \E t \in 1..MaxTasks : TaskCancelled(t)
    \/ \E c \in Callers : DispatchEdited(c)
    \/ \E c \in Callers : DispatchNotFound(c)
    \/ \E c \in Callers : DispatchDeleted(c)
    \/ \E d \in CachedIds : Collected(d)
    \/ \E m \in MessageIds : MessageDeleted(m)

Spec == Init /\ [][Next]_vars

\* ------------------------------------------------------------ SpecHydrate
\* After connect: the cache is filled; the table holds what earlier runs left in it.
InitHydrate ==
    /\ MoreIdle
    /\ RoomIdle
    /\ CallsIdle
    /\ sockets_infos = [d \in CachedIds |-> NewSocket(d, d)]
    /\ recent_task = [d \in CachedIds |-> 0]
    /\ tasks = <<>>
    /\ socket_data = [d \in CachedIds |-> NoData]
    /\ \E bound \in SUBSET DeviceIds : db = {Row(d) : d \in bound}
    /\ messages = MessageIds
    /\ content = [m \in MessageIds |-> NoEmbed]
    /\ frames = [c \in Callers |-> NoFrame]
    /\ ainit = [pc |-> "fetch", rows |-> <<>>, fetched |-> <<>>, edits |-> <<>>]

\* The first status report, arriving while ainit is running.
StartupReport(dev_id, status) ==
    /\ tasks = <<>>
    /\ ReportStatus(dev_id, status)

NextHydrate ==
    \/ \E d \in DeviceIds, i \in DOMAIN StatusFrames : StartupReport(d, StatusFrames[i])
    \/ \E t \in 1..MaxTasks : TaskWake(t)
    \/ \E d \in CachedIds : Collected(d)
    \/ \E c \in Callers : DispatchEdited(c)
    \/ \E c \in Callers : DispatchNotFound(c)
    \/ \E c \in Callers : DispatchDeleted(c)
    \/ AinitFetch
    \/ AinitRow
    \/ AinitDone
    \/ \E m \in MessageIds : MessageDeleted(m)

SpecHydrate == InitHydrate /\ [][NextHydrate]_vars

\* --------------------------------------------------------------- SpecRoom
\* The presence client is connected and no cycle has been armed yet.
InitRoom ==
    /\ MoreIdle
    /\ PanelIdle
    /\ CallsIdle
    /\ room_task = 0
    /\ room_tasks = <<>>
    /\ room_socket \in [value : BOOLEAN, countdown : {0, 1}]
    /\ room_commands = <<>>

NextRoom ==
    \/ \E state \in {"connected", "disconnected"} : on_state(state)
    \/ \E t \in 1..MaxCycles : RoomTimerElapsed(t)
    \/ \E t \in 1..MaxCycles, value \in BOOLEAN : PromptAnswered(t, value)
    \/ \E t \in 1..MaxCycles : PromptTimedOut(t)
    \/ \E t \in 1..MaxCycles, devices \in {<<>>, <<"s1">>} : RetrieveDone(t, devices)
    \/ \E t \in 1..MaxCycles, success \in BOOLEAN : CommandDone(t, success)
    \/ \E t \in 1..MaxCycles : RoomTaskCancelled(t)
    \/ \E t \in 1..MaxCycles : LeftoverPromptClosed(t)

SpecRoom == InitRoom /\ [][NextRoom]_vars

\* ------------------------------------------------------------ SpecCommand
NoArgs == [device_id |-> None, value |-> FALSE, countdown |-> 0]

\* One command, whatever the cache holds for the device.
InitCommand ==
    /\ MoreIdle
    /\ \E value \in BOOLEAN, countdown \in {0, 1} :
          sockets_infos = [d \in CachedIds |->
              [NewSocket(d, d) EXCEPT !.value = value, !.countdown = countdown]]
    /\ recent_task = [d \in CachedIds |-> 0]
    /\ tasks = <<>>
    /\ socket_data = [d \in CachedIds |-> NoData]
    /\ db = {}
    /\ messages = {}
    /\ content = [m \in MessageIds |-> NoEmbed]
    /\ frames = [c \in Callers |-> NoFrame]
    /\ ainit = [pc |-> "done", rows |-> <<>>, fetched |-> <<>>, edits |-> <<>>]
    /\ RoomIdle
    /\ set_call = [pc |-> "idle", args |-> NoArgs, requests |-> <<>>,
                   response |-> CommandResponses[1], returned |-> FALSE, error |-> None]
    /\ fetch_call = <<>>
    /\ status_call = <<>>
    /\ convert_call = <<>>

NextCommand ==
    \/ \E d \in DeviceIds, value \in BOOLEAN, countdown \in {0, 1} :
           set_device_value(d, value, countdown)
    \/ \E i \in DOMAIN CommandResponses : SetDeviceValueResponded(CommandResponses[i])

SpecCommand == InitCommand /\ [][NextCommand]_vars

\* -------------------------------------------------------------- SpecFetch
\* The inventories of up to MaxPages pages: page i holds up to two devices and hands
\* out cursor i; the platform's last page reports has_more = false.
PageLists(i) == {<<>>, <<[id |-> i, n |-> 1]>>, <<[id |-> i, n |-> 1], [id |-> i, n |-> 2]>>}

Inventories ==
    UNION {{pages \in [1..n -> [has_more : BOOLEAN, total : {n}, last_row_key : 1..n,
                                list : UNION {PageLists(i) : i \in 1..n}]] :
                /\ ~pages[n].has_more
                /\ \A i \in 1..n : pages[i].last_row_key = i /\ pages[i].list \in PageLists(i)}
           : n \in 1..MaxPages}

InitFetch ==
    /\ MoreIdle
    /\ PanelIdle
    /\ RoomIdle
    /\ set_call = <<>>
    /\ \E pages \in Inventories :
          fetch_call = [pc |-> "idle", pages |-> pages,
                        params |-> [device_ids |-> "d1,d2", last_row_key |-> 0],
                        results |-> <<>>, requests |-> <<>>]
    /\ status_call = <<>>
    /\ convert_call = <<>>

NextFetch ==
    \/ FetchStart
    \/ \E success \in BOOLEAN : FetchPage(success)

SpecFetch == InitFetch /\ [][NextFetch]_vars

\* ------------------------------------------------------------- SpecStatus
RECURSIVE Lists(_, _)
Lists(items, n) ==
    IF n = 0 THEN {<<>>}
    ELSE LET shorter == Lists(items, n - 1) IN
         shorter \cup {Append(list, item) : list \in {l \in shorter : Len(l) = n - 1}, item \in items}

InitStatus ==
    /\ MoreIdle
    /\ PanelIdle
    /\ RoomIdle
    /\ set_call = <<>>
    /\ fetch_call = <<>>
    /\ \E value \in BOOLEAN, countdown \in {0, 1}, current \in {0, 1}, voltage \in {0, 1},
          power \in {0, 1}, list \in Lists(DOMAIN StatusItems, MaxStatusLen) :
          LET socket == [NewSocket("d1", "d1") EXCEPT !.value = value,
                             !.countdown = countdown, !.current = current,
                             !.voltage = voltage, !.power = power]
          IN status_call = [socket |-> socket, before |-> socket, once |-> socket,
                            list |-> list, n |-> 0]
    /\ convert_call = <<>>

NextStatus == ApplyStatus

SpecStatus == InitStatus /\ [][NextStatus]_vars

\* ------------------------------------------------------------ SpecResolve
\* The caches of up to two devices, in the order the cache lists them; a device's name
\* may be another device's id.
ResolveIds == {"A1", "B2"}
ResolveNames == {"Lamp", "A1", "B2"}
ResolveArguments == {"A1", "B2", "Lamp", "Nope"}

DeviceLists ==
    {<<>>}
    \cup {<<[id |-> i, name |-> n]>> : i \in ResolveIds, n \in ResolveNames}
    \cup {devices \in {<<[id |-> i1, name |-> n1], [id |-> i2, name |-> n2]>> :
                          i1 \in ResolveIds, i2 \in ResolveIds,
                          n1 \in ResolveNames, n2 \in ResolveNames} :
              devices[1].id # devices[2].id}

InitResolve ==
    /\ MoreIdle
    /\ PanelIdle
    /\ RoomIdle
    /\ set_call = <<>>
    /\ fetch_call = <<>>
    /\ status_call = <<>>
    /\ \E devices \in DeviceLists :
          convert_call = [pc |-> "idle", devices |-> devices, argument |-> None,
                          device |-> NoDevice, error |-> <<>>]

NextResolve == \E argument \in ResolveArguments : convert(argument)

SpecResolve == InitResolve /\ [][NextResolve]_vars

\* ---------------------------------------------------------------- SpecBus
\* The push bus delivers frames to a bot whose cache is filled; no panel is bound.
InitBus ==
    /\ RoomIdle
    /\ CallsIdle
    /\ sockets_infos \in [CachedIds -> {[NewSocket("d", "d") EXCEPT !.online = o] : o \in BOOLEAN}]
    /\ recent_task = [d \in CachedIds |-> 0]
    /\ tasks = <<>>
    /\ socket_data = [d \in CachedIds |-> NoData]
    /\ db = {}
    /\ messages = {}
    /\ content = [m \in MessageIds |-> NoEmbed]
    /\ frames = [c \in Callers |-> NoFrame]
    /\ ainit = [pc |-> "done", rows |-> <<>>, fetched |-> <<>>, edits |-> <<>>]
    /\ bus_call = [handled |-> FALSE, frame |-> CHOOSE f \in BusFrames : TRUE,
                   before |-> sockets_infos, tasksBefore |-> 0, published |-> FALSE,
                   raised |-> FALSE]
    /\ server = <<>>
    /\ interaction = <<>>
    /\ sends = <<>>
    /\ startup = <<>>
    /\ LateIdle

NextBus ==
    \/ \E data \in BusFrames : on_message(data)
    \/ \E t \in 1..MaxTasks : TaskWake(t)
    \/ \E t \in 1..MaxTasks : TaskCancelled(t)
    \/ \E d \in CachedIds : Collected(d)

SpecBus == InitBus /\ [][NextBus]_vars

\* ------------------------------------------------------------- SpecServer
NoPresenceFrame ==
    [json |-> FALSE, object |-> FALSE, event |-> "None", hasData |-> FALSE,
     hasState |-> FALSE, hasWhen |-> FALSE, state |-> "connected"]

\* Webserver.start has been started and is about to make its first attempt.
InitServer ==
    /\ PanelIdle
    /\ RoomIdle
    /\ CallsIdle
    /\ bus_call = <<>>
    /\ server = [pc |-> "connect", attempts |-> 0, log |-> <<>>, last |-> NoPresenceFrame,
                 lastResult |-> "none", delivered |-> 0, error |-> "none"]
    /\ interaction = <<>>
    /\ sends = <<>>
    /\ startup = <<>>
    /\ LateIdle

NextServer ==
    \/ \E outcome \in {"open", "403", "refused"} : Connect(outcome)
    \/ BackoffElapsed
    \/ \E f \in PresenceFrames : Receive(f)
    \/ \E normally \in BOOLEAN : ConnectionLost(normally)

SpecServer == InitServer /\ [][NextServer]_vars

\* ----------------------------------------------------------- SpecInteract
\* A panel of d1 sent by u1 is bound (in the table, and in memory or not yet), and a
\* confirmation prompt for u1 is waiting for its answer.
InitInteract ==
    /\ RoomIdle
    /\ CallsIdle
    /\ \E value \in BOOLEAN :
          sockets_infos = [d \in CachedIds |-> [NewSocket(d, d) EXCEPT !.value = value]]
    /\ recent_task = [d \in CachedIds |-> 0]
    /\ tasks = <<>>
    /\ \E bound \in BOOLEAN :
          socket_data = [d \in CachedIds |-> IF d = "d1" /\ bound
                THEN [message |-> MessageOf[d], author |-> "u1", device |-> d] ELSE NoData]
    /\ db = {Row("d1")}
    /\ messages = {MessageOf["d1"]}
    /\ content = [m \in MessageIds |-> NoEmbed]
    /\ frames = [c \in Callers |-> NoFrame]
    /\ ainit = [pc |-> "done", rows |-> <<>>, fetched |-> <<>>, edits |-> <<>>]
    /\ bus_call = <<>>
    /\ server = <<>>
    /\ interaction =
           [pc |-> "idle", n |-> 0, view |-> None, user |-> None, value |-> FALSE,
            message |-> None, author |-> None, device |-> None, error |-> None,
            edit |-> NoFrame, commands |-> 0, panelStopped |-> FALSE,
            prompt |-> [user |-> "u1", value |-> None, stopped |-> FALSE],
            before |-> [sockets |-> sockets_infos, db |-> db, commands |-> 0,
                        prompt |-> [user |-> "u1", value |-> None, stopped |-> FALSE]]]
    /\ sends = <<>>
    /\ startup = <<>>
    /\ LateIdle

NextInteract ==
    \/ \E user \in Users, value \in BOOLEAN, m \in {"m1", "mx"} : InteractPanel(user, value, m)
    \/ PanelChecked
    \/ PanelCommand
    \/ \E outcome \in {"success", "failed", "raised"} : PanelCommandDone(outcome)
    \/ ResponseEdited
    \/ ResponseNotFound
    \/ ResponseDeleted
    \/ \E user \in Users, value \in BOOLEAN : InteractPrompt(user, value)
    \/ PromptResponded
    \/ \E m \in MessageIds : MessageDeleted(m)

SpecInteract == InitInteract /\ [][NextInteract]_vars

\* --------------------------------------------------------------- SpecSend
\* Hydration is over; d1 has a panel bound or no device has one. Whether the table is
\* keyed by device id is not in the source.
InitSend ==
    /\ RoomIdle
    /\ CallsIdle
    /\ sockets_infos = [d \in CachedIds |-> NewSocket(d, d)]
    /\ recent_task = [d \in CachedIds |-> 0]
    /\ tasks = <<>>
    /\ \E bound \in SUBSET {"d1"} :
          /\ db = {Row(d) : d \in bound}
          /\ socket_data = [d \in CachedIds |-> IF d \in bound
                THEN [message |-> MessageOf[d], author |-> "u1", device |-> d] ELSE NoData]
          /\ messages = {MessageOf[d] : d \in bound}
    /\ content = [m \in MessageIds |-> NoEmbed]
    /\ frames = [c \in Callers |-> NoFrame]
    /\ ainit = [pc |-> "done", rows |-> <<>>, fetched |-> <<>>, edits |-> <<>>]
    /\ bus_call = <<>>
    /\ server = <<>>
    /\ interaction = <<>>
    /\ \E unique \in BOOLEAN :
          sends = [calls |-> <<>>, clock |-> 0, holder |-> [d \in CachedIds |-> 0],
                   unique |-> unique]
    /\ startup = <<>>
    /\ LateIdle

NextSend ==
    \/ \E d \in CachedIds, author \in Users : SendStart(d, author)
    \/ \E i \in 1..MaxSends : SendSent(i)
    \/ \E i \in 1..MaxSends : SendDeleted(i)
    \/ \E i \in 1..MaxSends : SendInserted(i)

SpecSend == InitSend /\ [][NextSend]_vars

\* -------------------------------------------------------- SpecSendRefresh
\* Panels are sent for d1 while a status report for d1 leads to one refresh.
NextSendRefresh ==
    \/ \E author \in Users : SendStart("d1", author)
    \/ \E i \in 1..MaxSends : SendSent(i)
    \/ \E i \in 1..MaxSends : SendDeleted(i)
    \/ \E i \in 1..MaxSends : SendInserted(i)
    \/ StartupReport("d1", StatusFrames[1])
    \/ \E t \in 1..MaxTasks : TaskWake(t)
    \/ \E c \in Callers : DispatchEdited(c)
    \/ \E c \in Callers : DispatchNotFound(c)
    \/ \E c \in Callers : DispatchDeleted(c)

SpecSendRefresh == InitSend /\ [][NextSendRefresh]_vars

\* ------------------------------------------------------------ SpecStartup
\* IoTBot.startup has called asyncio.run(self._startup()).
InitStartup ==
    /\ PanelIdle
    /\ RoomIdle
    /\ CallsIdle
    /\ bus_call = <<>>
    /\ server = <<>>
    /\ interaction = <<>>
    /\ sends = <<>>
    /\ startup = [pc |-> "bot", entered |-> <<>>, released |-> {}, hub |-> "off",
                  server |-> "off", ainit |-> "none", exit |-> "none", served |-> FALSE]
    /\ LateIdle

NextStartup ==
    \/ EnterBot
    \/ \E outcome \in {"ok", "refused", "cache_fill"} : EnterTuya(outcome)
    \/ \E connected \in BOOLEAN : EnterPool(connected)
    \/ \E webhook \in BOOLEAN : EnterSession(webhook)
    \/ AinitTaskEnds
    \/ ServerTaskEnds
    \/ \E exit \in {"returned", "raised", "cancelled"} : ServeEnds(exit)
    \/ Exit
    \/ AfterWith
    \/ RunFinishes

SpecStartup == InitStartup /\ [][NextStartup]_vars

\* ------------------------------------------------------------- SpecPrompt
\* ViewPrompt(messageable, user).ask(...) has been called for user u1.
InitPrompt ==
    /\ PanelIdle
    /\ RoomIdle
    /\ CallsIdle
    /\ bus_call = <<>>
    /\ server = <<>>
    /\ interaction = <<>>
    /\ sends = <<>>
    /\ startup = <<>>
    /\ threads = <<>>
    /\ objects = <<>>
    /\ prompt_view = [user |-> "u1", value |-> None, message |-> "none", stopped |-> "no",
                      deletes |-> 0, presses |-> <<>>, ask |-> "send", result |-> None]

NextPrompt ==
    \/ ViewAskSent
    \/ \E user \in Users, value \in BOOLEAN : ViewPressed(user, value)
    \/ \E i \in 1..MaxPresses, replied \in BOOLEAN : ViewResponded(i, replied)
    \/ ViewTimeout
    \/ ViewMessageDeleted
    \/ ViewAskReturns

SpecPrompt == InitPrompt /\ [][NextPrompt]_vars

\* ------------------------------------------------------------ SpecThreads
\* The status lists the push bus reports here: a switch value and a power reading.
ThreadStatus ==
    << <<[code |-> "switch_1", value |-> TRUE], [code |-> "cur_power", value |-> 5]>>,
       <<[code |-> "switch_1", value |-> FALSE], [code |-> "cur_power", value |-> 0]>> >>

\* connect has started the bus thread and cache_fill, on the loop, has filled the cache.
InitThreads ==
    /\ PanelIdle
    /\ RoomIdle
    /\ CallsIdle
    /\ bus_call = <<>>
    /\ server = <<>>
    /\ interaction = <<>>
    /\ sends = <<>>
    /\ startup = <<>>
    /\ prompt_view = <<>>
    /\ objects = <<>>
    /\ threads = [mqtt |-> [pc |-> "idle", dev |-> None, status |-> <<>>],
                  loop |-> [pc |-> "idle", dev |-> None, read |-> NoSocket],
                  embed |-> NoEmbed, writer |-> "loop"]

NextThreads ==
    \/ \E d \in DeviceIds, i \in DOMAIN ThreadStatus : MqttOnMessage(d, ThreadStatus[i])
    \/ MqttSetattr
    \/ MqttUpdateDevice
    \/ \E d \in CachedIds : LoopFormatDevice(d)
    \/ LoopFormatted

SpecThreads == InitThreads /\ [][NextThreads]_vars

\* ------------------------------------------------------------ SpecObjects
\* connect has filled the cache for the first time; no view data exists yet.
InitObjects ==
    /\ PanelIdle
    /\ RoomIdle
    /\ CallsIdle
    /\ bus_call = <<>>
    /\ server = <<>>
    /\ interaction = <<>>
    /\ sends = <<>>
    /\ startup = <<>>
    /\ prompt_view = <<>>
    /\ threads = <<>>
    /\ objects = [heap |-> <<NewSocket("d1", "d1"), NewSocket("d2", "d2")>>,
                  cache |-> [d \in CachedIds |-> IF d = "d1" THEN 1 ELSE 2],
                  data |-> [d \in CachedIds |-> 0],
                  shown |-> [d \in CachedIds |-> [embed |-> NoEmbed, object |-> 0, fills |-> 0]],
                  fills |-> 0]

NextObjects ==
    \/ \E d \in CachedIds : ViewDataBound(d)
    \/ \E d \in CachedIds, i \in {1, 2} : ObjectReported(d, StatusFrames[i])
    \/ \E values \in [{1, 2} -> BOOLEAN] : cache_fill(values)
    \/ \E d \in CachedIds : ObjectDispatched(d)

SpecObjects == InitObjects /\ [][NextObjects]_vars

\* ================================================================ claims
TaskIds == 1..Len(tasks)

\* A refresh task that is neither finished nor cancelled.
Live(t) == tasks[t].st \in {"sleeping", "dispatch"} /\ ~tasks[t].cancelReq

\* t2 is the task the trigger after t1's created for the same device.
NextTrigger(t1, t2) ==
    /\ t1 < t2
    /\ tasks[t1].dev = tasks[t2].dev
    /\ \A t \in TaskIds : t1 < t /\ t < t2 => tasks[t].dev # tasks[t1].dev

\* C1: when a second trigger for a device arrives while the first trigger's task is
\* still in its 1-second sleep, the first task never calls dispatch_update, the second
\* calls it exactly once when it runs to its end, and what it renders is the device
\* state of the second trigger or a later one.
C1_DebounceOneRefresh ==
    \A t1, t2 \in TaskIds :
        NextTrigger(t1, t2) /\ tasks[t1].sup = "sleeping" =>
            /\ tasks[t1].disp = 0
            /\ tasks[t2].disp <= 1
            /\ (tasks[t2].st = "done" => tasks[t2].disp = 1)
            /\ (tasks[t2].disp = 1 /\ tasks[t2].shown # -1 =>
                    /\ tasks[t2].shown >= tasks[t2].born
                    /\ tasks[t2].shown > tasks[t1].born)

\* Two triggers within the window, one refresh, showing the second trigger's state.
C1_Witness ==
    \E t1, t2 \in TaskIds :
        /\ NextTrigger(t1, t2)
        /\ tasks[t1].sup = "sleeping"
        /\ tasks[t1].st = "cancelled"
        /\ tasks[t2].st = "done"
        /\ tasks[t2].disp = 1
        /\ tasks[t2].shown = tasks[t2].born
        /\ content[MessageOf[tasks[t2].dev]].rev = tasks[t2].born

\* C2: in every reachable state every device id has at most one refresh task that
\* is neither finished nor cancelled.
C2_AtMostOnePendingRefresh ==
    \A d \in CachedIds : Cardinality({t \in TaskIds : tasks[t].dev = d /\ Live(t)}) <= 1

\* A superseded task still on its way out beside its live successor, and a live task
\* of the other device.
C2_Witness ==
    \E t1, t2, t3 \in TaskIds :
        /\ NextTrigger(t1, t2)
        /\ tasks[t1].st = "dispatch" /\ tasks[t1].cancelReq
        /\ Live(t2)
        /\ tasks[t3].dev # tasks[t1].dev /\ Live(t3)

\* The rows ainit fetched are bindings of distinct cached devices.
DistinctCachedRows ==
    /\ \A i \in DOMAIN ainit.fetched : ainit.fetched[i].device_id \in DOMAIN sockets_infos
    /\ \A i, j \in DOMAIN ainit.fetched :
           ainit.fetched[i].device_id = ainit.fetched[j].device_id => i = j

Bound == {d \in CachedIds : socket_data[d] # NoData}

\* The refreshes ainit issued: one per fetched row, against the row's message.
OneRefreshPerRow ==
    /\ Len(ainit.edits) = Len(ainit.fetched)
    /\ \A i \in DOMAIN ainit.fetched : ainit.edits[i] = ainit.fetched[i].message_id

RoomTaskIds == 1..Len(room_tasks)

\* A workflow task whose timer or prompt is still active.
RoomLive(t) == room_tasks[t].st \notin RoomFinished /\ ~room_tasks[t].cancelReq

\* C3: a cycle armed by "disconnected" sends at most one prompt; once its 60-second
\* timer has elapsed without a "connected" event it has sent exactly one; and a cycle
\* that "connected" cancelled while the timer was running never sends one.
C3_OnePromptPerDeparture ==
    \A t \in RoomTaskIds :
        /\ room_tasks[t].asked <= 1
        /\ (room_tasks[t].st \in {"prompting", "retrieving", "commanding", "done"}
                => room_tasks[t].asked = 1)
        /\ (room_tasks[t].cutBy = "connected" /\ room_tasks[t].cutAt = "sleeping"
                => room_tasks[t].asked = 0)

\* One departure was cancelled by "connected" in time, the next one led to its prompt.
C3_Witness ==
    \E t1, t2 \in RoomTaskIds :
        /\ room_tasks[t1].cutBy = "connected" /\ room_tasks[t1].cutAt = "sleeping"
        /\ room_tasks[t1].st = "cancelled" /\ room_tasks[t1].asked = 0
        /\ room_tasks[t2].st = "prompting" /\ room_tasks[t2].asked = 1
        /\ room_tasks[t2].cutBy = "none"

C5_AsStated ==
    \A i \in DOMAIN room_commands :
        /\ room_tasks[room_commands[i].task].answer = "yes"
        /\ room_commands[i].countdown = 0
        /\ ~room_commands[i].alreadyOff

\* C6: set_device_value(device_id, value, countdown) issues exactly one POST to that
\* device's commands endpoint, carrying code switch_1 with the given value and code
\* countdown_1 with the given countdown, whatever the cache holds for the device; it
\* returns the result field of a successful response and raises on a failed one.
C6_OnePostBothCodes ==
    set_call.pc # "idle" =>
        /\ Len(set_call.requests) = 1
        /\ set_call.requests[1].endpoint = set_call.args.device_id
        /\ Len(set_call.requests[1].body) = 2
        /\ set_call.requests[1].body[1].code = "switch_1"
        /\ set_call.requests[1].body[1].value = set_call.args.value
        /\ set_call.requests[1].body[2].code = "countdown_1"
        /\ set_call.requests[1].body[2].value = set_call.args.countdown
        /\ set_call.pc = "returned" =>
               set_call.response.success /\ set_call.returned = set_call.response.result
        /\ set_call.pc = "raised" =>
               ~set_call.response.success /\ set_call.error # None

C6_Witness ==
    /\ set_call.pc = "returned"
    /\ set_call.args.device_id \in CachedIds
    /\ sockets_infos[set_call.args.device_id].value = set_call.args.value
    /\ sockets_infos[set_call.args.device_id].countdown = set_call.args.countdown
    /\ Len(set_call.requests) = 1
    /\ set_call.returned

\* The pages the fetch has to read: up to the first one reporting has_more = false.
LastPage == CHOOSE k \in DOMAIN fetch_call.pages :
                /\ ~fetch_call.pages[k].has_more
                /\ \A i \in 1..(k - 1) : fetch_call.pages[i].has_more

RECURSIVE Concat(_, _)
Concat(pages, k) == IF k = 0 THEN <<>> ELSE Concat(pages, k - 1) \o pages[k].list

\* C7: fetch_devices_info requests pages until one reports has_more = false, each
\* request after the first carrying the previous page's last_row_key, and returns the
\* lists of all pages read, in order; no page is requested after the final one.
C7_PagesFollowedToTheEnd ==
    /\ Len(fetch_call.requests) <= LastPage
    /\ \A i \in DOMAIN fetch_call.requests :
          fetch_call.requests[i].last_row_key =
              IF i = 1 THEN 0 ELSE fetch_call.pages[i - 1].last_row_key
    /\ fetch_call.pc = "returned" =>
          /\ Len(fetch_call.requests) = LastPage
          /\ fetch_call.results = Concat(fetch_call.pages, LastPage)

C7_Witness ==
    /\ fetch_call.pc = "returned"
    /\ Len(fetch_call.pages) = 3
    /\ LastPage = 3
    /\ Len(fetch_call.results) = 5
    /\ fetch_call.requests[3].last_row_key = 2

\* The Socket fields a status can write, and the code that writes each.
Fields(socket) == <<socket.value, socket.countdown, socket.current, socket.voltage, socket.power>>
FieldCodes == <<"switch_1", "countdown_1", "cur_current", "cur_voltage", "cur_power">>

\* C8: applying one status list to a Socket twice leaves it as one application does,
\* and a field changes only when the list has an item with the field's code: items with
\* any other code change nothing.
C8_StatusIdempotent ==
    LET items == ItemsAt(status_call.list) IN
    /\ status_call.n = 2 => status_call.socket = status_call.once
    /\ \A f \in DOMAIN FieldCodes :
          (\A i \in DOMAIN items : items[i].code # FieldCodes[f]) =>
              Fields(status_call.socket)[f] = Fields(status_call.before)[f]
    /\ status_call.socket.id = status_call.before.id
    /\ status_call.socket.name = status_call.before.name
    /\ status_call.socket.online = status_call.before.online

C8_Witness ==
    /\ status_call.n = 2
    /\ status_call.socket # status_call.before
    /\ \E i \in DOMAIN status_call.list :
           StatusItems[status_call.list[i]].code = "doorcontact_state"
    /\ \E i \in DOMAIN status_call.list :
           StatusItems[status_call.list[i]].code = "countdown_1"

\* C9: a device argument resolves to the cached device with that id when there is one,
\* otherwise to the first cached device with that name, and otherwise the conversion
\* fails with a command error whose text carries the argument.
C9_IdBeforeName ==
    convert_call.pc # "idle" =>
        LET devices == convert_call.devices
            argument == convert_call.argument
            byId == {i \in DOMAIN devices : devices[i].id = argument}
            byName == {i \in DOMAIN devices : devices[i].name = argument}
        IN IF byId # {}
           THEN convert_call.pc = "returned" /\ convert_call.device.id = argument
           ELSE IF byName # {}
           THEN /\ convert_call.pc = "returned"
                /\ \E i \in byName : /\ convert_call.device = devices[i]
                                     /\ \A j \in byName : i <= j
           ELSE /\ convert_call.pc = "raised"
                /\ \E i \in DOMAIN convert_call.error : convert_call.error[i] = argument

C9_Witness ==
    /\ convert_call.pc = "returned"
    /\ convert_call.argument = "A1"
    /\ convert_call.devices = <<[id |-> "B2", name |-> "A1"], [id |-> "A1", name |-> "Lamp"]>>
    /\ convert_call.device = [id |-> "A1", name |-> "Lamp"]

\* The fields of a cached device other than its online flag and its mutation count.
Offline(socket) == [socket EXCEPT !.online = FALSE, !.rev = 0]

\* C11: a protocol-20 frame for a cached device with biz code online sets the device's
\* cached online flag, one with biz code offline clears it, and either schedules one
\* refresh task for that device after asking the device's previous task to stop; any
\* other biz code leaves the cache as it was and schedules nothing.
C11_PresenceSetsOnline ==
    bus_call.handled /\ bus_call.frame.protocol = 20 /\ bus_call.frame.devId \in CachedIds =>
        LET d == bus_call.frame.devId
            new == bus_call.tasksBefore + 1
        IN IF bus_call.frame.bizCode \in {"online", "offline"}
           THEN /\ sockets_infos[d].online = (bus_call.frame.bizCode = "online")
                /\ Offline(sockets_infos[d]) = Offline(bus_call.before[d])
                /\ \A e \in CachedIds \ {d} : sockets_infos[e] = bus_call.before[e]
                /\ Len(tasks) = new
                /\ tasks[new].dev = d
                /\ \A t \in 1..bus_call.tasksBefore :
                       tasks[t].dev = d => tasks[t].cancelReq \/ tasks[t].st \in {"done", "cancelled"}
           ELSE /\ sockets_infos = bus_call.before
                /\ Len(tasks) = bus_call.tasksBefore

\* An offline frame turned an online device offline and replaced its pending refresh.
C11_Witness ==
    /\ bus_call.handled
    /\ bus_call.frame.protocol = 20
    /\ bus_call.frame.bizCode = "offline"
    /\ bus_call.frame.devId \in CachedIds
    /\ bus_call.before[bus_call.frame.devId].online
    /\ ~sockets_infos[bus_call.frame.devId].online
    /\ bus_call.tasksBefore = 1
    /\ tasks[1].dev = bus_call.frame.devId /\ tasks[1].cancelReq
    /\ tasks[2].st = "sleeping"

\* C17: handling a frame whose protocol number is neither 4 nor 20 raises nothing,
\* changes no cached device, schedules no refresh and publishes no socket event.
C17_UnknownProtocolDropped ==
    bus_call.handled /\ bus_call.frame.protocol \notin {4, 20} =>
        /\ ~bus_call.raised
        /\ sockets_infos = bus_call.before
        /\ Len(tasks) = bus_call.tasksBefore
        /\ ~bus_call.published

\* A frame with protocol 21 for a cached device with a refresh pending was dropped.
C17_Witness ==
    /\ bus_call.handled
    /\ bus_call.frame.protocol = 21
    /\ bus_call.frame.devId \in CachedIds
    /\ bus_call.tasksBefore = 1
    /\ Len(tasks) = 1
    /\ tasks[1].st = "sleeping" /\ ~tasks[1].cancelReq

\* C12 as stated: every connection attempt that follows a 403 rejection is preceded by
\* exactly one credential exchange and by no backoff sleep.
C12_AsStated ==
    \A i \in DOMAIN server.log :
        server.log[i] = "403" /\ i < Len(server.log) =>
            /\ server.log[i + 1] = "auth"
            /\ i + 1 < Len(server.log) => server.log[i + 2] = "attempt"

\* C14 as stated: the reconnect loop never ends.
C14_AsStated == server.pc # "ended"

\* The presence-state event names: the one the service documents and the Enum's value.
StateEvents == {"state", "stella_state"}

\* A frame that is not JSON, not an {event, data} envelope, or a state event whose data
\* lacks state or when.
Malformed(f) ==
    \/ ~f.json
    \/ ~f.object
    \/ f.event = "None"
    \/ ~f.hasData
    \/ f.event \in StateEvents /\ (~f.hasState \/ ~f.hasWhen)

\* C15 as stated: a malformed frame is skipped and the loop reads on.
C15_AsStated ==
    server.lastResult # "none" /\ Malformed(server.last) =>
        server.lastResult \in {"skipped", "ignored"}

\* C16 as stated: a well-formed state frame delivers exactly one presence-state event,
\* a frame with another event name delivers none.
C16_AsStated ==
    server.lastResult # "none" /\ ~Malformed(server.last) =>
        IF server.last.event \in StateEvents
        THEN server.lastResult = "dispatched" /\ server.delivered = 1
        ELSE server.delivered = 0

\* C13: an interaction from a user other than the bound author fails with
\* NotAuthorError, and while it is the last interaction the cached devices, the
\* persisted bindings, the number of commands issued and the pending prompt (its value
\* unset, ask still waiting) are what they were when it arrived.
C13_NotAuthorChangesNothing ==
    /\ interaction.pc \notin {"idle", "check"}
       /\ interaction.author # None
       /\ interaction.user # interaction.author
       => interaction.error = "NotAuthorError"
    /\ interaction.error = "NotAuthorError" =>
          /\ interaction.pc = "done"
          /\ sockets_infos = interaction.before.sockets
          /\ db = interaction.before.db
          /\ interaction.commands = interaction.before.commands
          /\ interaction.prompt = interaction.before.prompt

\* After the author switched the device with the panel, another user pressed a button
\* of the pending prompt and was turned away: the prompt is still unanswered.
C13_Witness ==
    /\ interaction.error = "NotAuthorError"
    /\ interaction.view = "prompt"
    /\ interaction.user = "u2"
    /\ interaction.commands = 1
    /\ interaction.prompt.value = None
    /\ ~interaction.prompt.stopped
    /\ sockets_infos["d1"].rev = 1

\* The sends whose message exists, and the latest of them for a device.
Sent(d) == {i \in DOMAIN sends.calls : sends.calls[i].device_id = d /\ sends.calls[i].sentAt > 0}
Latest(d) == CHOOSE i \in Sent(d) : \A j \in Sent(d) : sends.calls[j].sentAt <= sends.calls[i].sentAt

\* C18 as stated: once every send has ended, the table holds at most one row per device
\* id, and for a device a panel was sent for it is the row of the panel sent last.
C18_AsStated ==
    (\A i \in DOMAIN sends.calls : sends.calls[i].pc \in {"done", "raised"}) =>
        \A d \in CachedIds :
            /\ Cardinality({row \in db : row.device_id = d}) <= 1
            /\ Sent(d) # {} =>
                   \E row \in db : /\ row.device_id = d
                                   /\ row.message_id = sends.calls[Latest(d)].message

C20_AsStated ==
    \A t \in RoomTaskIds :
        room_tasks[t].cutBy = "connected" =>
            /\ ~(room_tasks[t].st = "sleeping" /\ ~room_tasks[t].cancelReq)
            /\ (room_tasks[t].st = "cancelled" => room_tasks[t].prompt # "open")
            /\ (room_tasks[t].cutAt \in {"sleeping", "prompting", "retrieving"}
                    => \A i \in DOMAIN room_commands : room_commands[i].task # t)

\* The task CloseRoom holds has run to its end: the cycle is resolved.
Resolved == room_task # 0 /\ room_tasks[room_task].st = "done"

\* C21: when the cycle held by the workflow is resolved (answered yes or no, timed
\* out, or its command failed), a "disconnected" event can be handled and changes the
\* workflow, and handling it leaves the finished tasks as they are and arms a fresh
\* timer, which the workflow holds and which has sent no prompt yet.
C21_ResolvedThenRearmed ==
    /\ [](Resolved /\ Len(room_tasks) < MaxCycles
            => ENABLED <<on_state("disconnected")>>_vars)
    /\ [][Resolved /\ Len(room_tasks') > Len(room_tasks) =>
             /\ Len(room_tasks') = Len(room_tasks) + 1
             /\ room_task' = Len(room_tasks')
             /\ room_tasks'[room_task'] = NewRoomTask
             /\ \A t \in RoomTaskIds : room_tasks'[t] = room_tasks[t]]_vars

\* After a cycle that was answered with yes has ended, a later departure has led to a
\* new prompt.
C21_Witness ==
    \E t1, t2 \in RoomTaskIds :
        /\ t1 < t2
        /\ room_tasks[t1].st = "done" /\ room_tasks[t1].cutBy = "none"
        /\ room_tasks[t1].answer = "yes"
        /\ room_tasks[t2].st = "prompting" /\ room_tasks[t2].asked = 1
        /\ room_task = t2

Actuated ==
    /\ interaction.view = "panel"
    /\ interaction.pc = "done"
    /\ interaction.commands > interaction.before.commands

\* C23 as stated: after a button press by the bound author the cached device differs
\* from what it was only by the requested value (with current and power 0 on close),
\* and a handler whose command did not succeed ends without an error raised.
C23_AsStated ==
    Actuated =>
        /\ interaction.error = None
        /\ LET device == sockets_infos[interaction.device]
               was == interaction.before.sockets[interaction.device]
           IN device # was =>
                 /\ device.value = interaction.value
                 /\ ~interaction.value => device.current = 0 /\ device.power = 0

\* The presses of the bound user, in the order they arrived.
BoundPresses == SelectSeq(prompt_view.presses, LAMBDA press : press.user = prompt_view.user)

\* C24: once ask is over, a returned True means the bound user pressed the affirmative
\* button and a returned False that they pressed the negative one; ask failed with
\* TimeoutError exactly when the view timed out and the bound user never pressed; and
\* in each case the prompt's message is deleted or its deletion is under way.
C24_AskOutcomes ==
    prompt_view.ask = "done" =>
        /\ prompt_view.result \in {"True", "False", "TimeoutError"}
        /\ (prompt_view.result \in {"True", "False"} =>
               \E i \in DOMAIN BoundPresses : BoundPresses[i].value = prompt_view.result)
        /\ (prompt_view.result = "TimeoutError"
               <=> prompt_view.stopped = "timeout" /\ BoundPresses = <<>>)
        /\ (prompt_view.message = "deleted" \/ prompt_view.deletes > 0)

\* Somebody else pressed a button, nobody answered in time, ask failed with
\* TimeoutError and the message is gone.
C24_Witness ==
    /\ prompt_view.ask = "done"
    /\ prompt_view.result = "TimeoutError"
    /\ prompt_view.message = "deleted"
    /\ \E i \in DOMAIN prompt_view.presses : prompt_view.presses[i].pc = "NotAuthorError"

\* C30 as stated: what ask returns is the value of the bound user's first press.
C30_AsStated ==
    prompt_view.ask = "done" /\ BoundPresses # <<>> =>
        prompt_view.result = BoundPresses[1].value

\* C25 as stated: the cache is only ever written from the event loop's thread, and the
\* bus handler is never inside a cache update while a handler of the loop is reading
\* the cache.
C25_AsStated ==
    /\ threads.writer = "loop"
    /\ ~(threads.mqtt.pc # "idle" /\ threads.loop.pc # "idle")

\* C26 as stated: a refresh that ran since the cache was last filled rendered the Socket
\* the cache holds under the device id, and shows that Socket's fields.
C26_AsStated ==
    \A d \in CachedIds :
        objects.shown[d].object # 0 /\ objects.shown[d].fills = objects.fills =>
            objects.shown[d].object = objects.cache[d]

\* C28 as stated: one panel was sent for a device while a refresh of the same device
\* ran; once both are over, the table has the row of the new message and the in-memory
\* entry of the device exists and points at the new message.
C28_AsStated ==
    \A d \in CachedIds :
        /\ Cardinality(Sent(d)) = 1
        /\ \A i \in DOMAIN sends.calls : sends.calls[i].pc = "done"
        /\ \A t \in TaskIds : tasks[t].st \in {"done", "cancelled"}
        => /\ \E row \in db : /\ row.device_id = d
                              /\ row.message_id = sends.calls[Latest(d)].message
           /\ socket_data[d] # NoData
           /\ socket_data[d].message = sends.calls[Latest(d)].message

\* C29 as stated: hydration never ends with an exception, and once it is over every
\* fetched row whose device is cached has had its entry created and refreshed.
C29_AsStated ==
    /\ ainit.pc # "failed"
    /\ ainit.pc = "done" =>
           \A i \in DOMAIN ainit.fetched :
               ainit.fetched[i].device_id \in DOMAIN sockets_infos =>
                   \E j \in DOMAIN ainit.edits : ainit.edits[j] = ainit.fetched[i].message_id

\* C27 as stated: the shared view is never stopped while a panel other than the one
\* whose press raised FatalViewError is still bound to a message that exists, so
\* presses on that other panel are still handled.
C27_AsStated ==
    interaction.panelStopped =>
        ~\E row \in db : /\ row.message_id \in messages
                         /\ row.message_id # interaction.message

====
